---- MODULE Spec2Model ----
(***************************************************************************)
(* A model of gopulse ("vibe"): the staged-diff synthesis and branch       *)
(* resolution of internal/git, the reply interpretation of internal/llm,   *)
(* the remote-URL parser of internal/github, the confirmation prompts of   *)
(* internal/ui and the two commands of cmd.                                *)
(*                                                                         *)
(* Go strings are TLA+ strings; a character is a string of length one.     *)
(***************************************************************************)
EXTENDS Integers, Sequences, FiniteSets, TLC

VARIABLES
    fn,        \* the function under call ("" when none)
    arg,       \* its argument(s)
    res,       \* <<>> before it returns, then <<its result>>
    refs,      \* the repository's references: a sequence of records in storage iteration order
    hasRemote, \* whether the repository has at least one configured remote
    head,      \* what HEAD resolves to: <<[name, hash]>>, <<>> when it cannot be resolved
    parent,    \* the history: each commit's parent commit, 0 for a root commit
    missing,   \* the commits whose objects cannot be loaded from the object store
    status,    \* worktree status: a sequence of entries in map iteration order
    hasHead,   \* whether a HEAD commit tree exists
    cmd,       \* the command being run: "commit" or "pr"
    pc,        \* the command's position
    env,       \* the collaborators' answers for this run
    calls,     \* the collaborators invoked so far, in order
    outcome,   \* the confirmation prompt's outcome
    payload    \* the generated content, then the confirmed content

callVars == <<fn, arg, res>>
repoVars == <<refs, hasRemote, head, parent, missing>>
stageVars == <<status, hasHead>>
cmdVars == <<cmd, pc, env, calls, outcome, payload>>
vars == <<fn, arg, res, refs, hasRemote, head, parent, missing, status, hasHead,
          cmd, pc, env, calls, outcome, payload>>

None == "<none>"

(***************************************************************************)
(* Go's strings package, as far as the program uses it.                    *)
(***************************************************************************)
Min(S) == CHOOSE x \in S : \A y \in S : x <= y
Max(S) == CHOOSE x \in S : \A y \in S : x >= y

Char(s, i) == SubSeq(s, i, i)

\* unicode.IsSpace on the characters a reply, a URL or a file can hold here
WhiteSpace == {" ", "\t", "\n", "\r"}

\* the backquote cannot be written inside a TLA+ string: "~" stands for it
Backquote == "~"

\* the cutset "\"'`" of the quote trimming
QuoteChars == {"\"", "'", Backquote}

\* the cutset "\"'`#" of the fallback title
TitleCutset == {"\"", "'", Backquote, "#"}

\* strings.Trim(s, cutset): every leading and every trailing character of the cutset
Trim(s, cutset) ==
    LET keep == {i \in 1..Len(s) : Char(s, i) \notin cutset}
    IN  IF keep = {} THEN "" ELSE SubSeq(s, Min(keep), Max(keep))

TrimSpace(s) == Trim(s, WhiteSpace)

HasPrefix(s, prefix) ==
    Len(s) >= Len(prefix) /\ SubSeq(s, 1, Len(prefix)) = prefix

HasSuffix(s, suffix) ==
    Len(s) >= Len(suffix) /\ SubSeq(s, Len(s) - Len(suffix) + 1, Len(s)) = suffix

TrimPrefix(s, prefix) ==
    IF HasPrefix(s, prefix) THEN SubSeq(s, Len(prefix) + 1, Len(s)) ELSE s

Contains(s, substr) ==
    \E i \in 1..(Len(s) - Len(substr) + 1) : SubSeq(s, i, i + Len(substr) - 1) = substr

UpperLetters == "ABCDEFGHIJKLMNOPQRSTUVWXYZ"
LowerLetters == "abcdefghijklmnopqrstuvwxyz"

LowerChar(c) ==
    IF \E k \in 1..26 : Char(UpperLetters, k) = c
    THEN Char(LowerLetters, CHOOSE k \in 1..26 : Char(UpperLetters, k) = c)
    ELSE c

RECURSIVE ToLower(_)
ToLower(s) ==
    IF s = "" THEN "" ELSE LowerChar(Head(s)) \o ToLower(Tail(s))

\* strings.Split(s, sep) for a one-character separator: always at least one piece
RECURSIVE Split(_, _)
Split(s, sep) ==
    LET at == {i \in 1..Len(s) : Char(s, i) = sep}
    IN  IF at = {} THEN <<s>>
        ELSE <<SubSeq(s, 1, Min(at) - 1)>> \o Split(SubSeq(s, Min(at) + 1, Len(s)), sep)

RECURSIVE Join(_, _)
Join(elems, sep) ==
    IF Len(elems) = 0 THEN ""
    ELSE IF Len(elems) = 1 THEN elems[1]
    ELSE elems[1] \o sep \o Join(Tail(elems), sep)

(***************************************************************************)
(* internal/llm: interpreting the model's reply.                           *)
(***************************************************************************)

\* the loop without its "Skip Description: header" branch
RECURSIVE DescLoopKeepsHeader(_, _, _, _)
DescLoopKeepsHeader(lines, i, result, foundContent) ==
    IF i > Len(lines) THEN result
    ELSE IF ~foundContent /\ TrimSpace(lines[i]) = ""
    THEN DescLoopKeepsHeader(lines, i + 1, result, foundContent)
    ELSE DescLoopKeepsHeader(lines, i + 1, Append(result, lines[i]), TRUE)

\* parseDescription's loop over lines[i..], carrying result and foundContent
RECURSIVE DescLoop(_, _, _, _)
DescLoop(lines, i, result, foundContent) ==
    IF i > Len(lines) THEN result
    ELSE LET line == lines[i]
             trimmed == TrimSpace(line)
         IN  IF HasPrefix(ToLower(trimmed), "description:")
             THEN LET rest == TrimSpace(TrimPrefix(TrimPrefix(trimmed, "Description:"),
                                                   "description:"))
                  IN  IF rest # ""
                      THEN DescLoop(lines, i + 1, Append(result, rest), TRUE)
                      ELSE DescLoop(lines, i + 1, result, foundContent)
             ELSE IF ~foundContent /\ trimmed = ""
             THEN DescLoop(lines, i + 1, result, foundContent)
             ELSE DescLoop(lines, i + 1, Append(result, line), TRUE)

parseDescription(lines) == TrimSpace(Join(DescLoop(lines, 1, <<>>, FALSE), "\n"))

\* the description of the lines after line i (lines[i+1:]), "" when there are none
RestDescription(lines, i) ==
    IF i < Len(lines) THEN parseDescription(SubSeq(lines, i + 1, Len(lines))) ELSE ""

\* the title taken from a line recognised by its marker
MarkedTitle(line) ==
    Trim(TrimSpace(TrimPrefix(TrimSpace(TrimPrefix(line, "Title:")), "title:")), QuoteChars)

\* the title taken from the first non-empty line
FallbackTitle(line) == Trim(line, TitleCutset)

\* parsePRContent's loop "Find title line", from line i on
RECURSIVE TitleLoop(_, _, _)
TitleLoop(lines, i, pr) ==
    IF i > Len(lines) THEN pr
    ELSE LET line == TrimSpace(lines[i])
         IN  IF HasPrefix(ToLower(line), "title:")
             THEN [Title |-> MarkedTitle(line), Description |-> RestDescription(lines, i)]
             ELSE IF pr.Title = "" /\ line # ""
             THEN [Title |-> FallbackTitle(line), Description |-> RestDescription(lines, i)]
             ELSE TitleLoop(lines, i + 1, pr)

\* "Clean up title"
CleanTitle(title) == TrimSpace(TrimPrefix(TrimPrefix(title, "Title:"), "title:"))

parsePRContent(content) ==
    LET lines == Split(TrimSpace(content), "\n")
        pr == TitleLoop(lines, 1, [Title |-> "", Description |-> ""])
    IN  [Title |-> CleanTitle(pr.Title), Description |-> pr.Description]

\* the cleaning that removes a single quote character from each end
ParseCommitMessageOneLayer(text) ==
    LET t == Trim(text, WhiteSpace)
        a == IF Len(t) > 0 /\ Char(t, 1) \in QuoteChars THEN 1 ELSE 0
        b == IF Len(t) > a /\ Char(t, Len(t)) \in QuoteChars THEN 1 ELSE 0
    IN  SubSeq(t, 1 + a, Len(t) - b)

\* GenerateCommitMessage, from the reply's text to the returned message
ParseCommitMessage(text) == Trim(TrimSpace(text), QuoteChars)

(***************************************************************************)
(* internal/git: references and history.                                   *)
(***************************************************************************)

\* plumbing.NewBranchReferenceName, plumbing.NewRemoteReferenceName
BranchRefName(name) == "refs/heads/" \o name
RemoteRefName(remote, name) == "refs/remotes/" \o remote \o "/" \o name

\* repo.Reference(name, true): <<the reference>>, <<>> for ErrReferenceNotFound
Reference(rs, name) ==
    LET at == {i \in 1..Len(rs) : rs[i].name = name}
    IN  IF at = {} THEN <<>> ELSE <<rs[Min(at)]>>

\* a scan that goes through all references and keeps the last match
RECURSIVE ScanRefsLastWins(_, _, _)
ScanRefsLastWins(rs, i, defaultBranch) ==
    IF i > Len(rs) THEN defaultBranch
    ELSE IF Contains(rs[i].name, "origin/main") THEN ScanRefsLastWins(rs, i + 1, "main")
    ELSE IF Contains(rs[i].name, "origin/master") THEN ScanRefsLastWins(rs, i + 1, "master")
    ELSE ScanRefsLastWins(rs, i + 1, defaultBranch)

\* the callback of refs.ForEach, from reference i on: an error ends the iteration
RECURSIVE ScanRefs(_, _, _)
ScanRefs(rs, i, defaultBranch) ==
    IF i > Len(rs) THEN defaultBranch
    ELSE IF Contains(rs[i].name, "origin/main") THEN "main"
    ELSE IF Contains(rs[i].name, "origin/master") THEN ScanRefs(rs, i + 1, "master")
    ELSE ScanRefs(rs, i + 1, defaultBranch)

Found(branch) == [err |-> FALSE, branch |-> branch]
NoDefaultBranch == [err |-> TRUE, branch |-> ""]

\* the answer that consults the remote-tracking references before the local master
GetDefaultBranchRemoteFirst(rs, remotes) ==
    IF Reference(rs, BranchRefName("main")) # <<>> THEN Found("main")
    ELSE IF remotes /\ ScanRefs(rs, 1, "") # "" THEN Found(ScanRefs(rs, 1, ""))
    ELSE IF Reference(rs, BranchRefName("master")) # <<>> THEN Found("master")
    ELSE NoDefaultBranch

GetDefaultBranch(rs, remotes) ==
    IF Reference(rs, BranchRefName("main")) # <<>> THEN Found("main")
    ELSE IF Reference(rs, BranchRefName("master")) # <<>> THEN Found("master")
    ELSE IF remotes /\ ScanRefs(rs, 1, "") # "" THEN Found(ScanRefs(rs, 1, ""))
    ELSE NoDefaultBranch

\* a commit's hash: 40 hexadecimal characters in git, written here with 9; commits 2k and
\* 2k+1 agree on the first 7
HexDigits == "0123456789abcdef"
CommitHash(c) ==
    "9fceb0" \o Char(HexDigits, (c \div 2) + 1) \o Char(HexDigits, (c % 2) + 1) \o "e"

\* a commit's message: every second one has a body
CommitMessage(c) ==
    IF c % 2 = 0 THEN "Change " \o Char(HexDigits, c + 1) \o "\n\nwith a body"
    ELSE "Change " \o Char(HexDigits, c + 1)

ShortHashLen == 7

\* the CommitInfo appended for commit c
CommitInfo(c) ==
    [Hash |-> SubSeq(CommitHash(c), 1, ShortHashLen),
     Message |-> Split(CommitMessage(c), "\n")[1]]

\* the loop that appends before it tests for the base
RECURSIVE AheadLoopIncludesBase(_, _, _, _, _)
AheadLoopIncludesBase(par, gone, c, baseHash, commits) ==
    IF c = 0 THEN [commits |-> commits, err |-> ""]
    ELSE IF c \in gone THEN [commits |-> commits, err |-> "object not found"]
    ELSE IF CommitHash(c) = baseHash
    THEN [commits |-> Append(commits, CommitInfo(c)), err |-> "reached base"]
    ELSE AheadLoopIncludesBase(par, gone, par[c], baseHash, Append(commits, CommitInfo(c)))

\* commitIter.ForEach with the callback of GetCommitsAhead, from commit c on (0: the
\* iterator is exhausted); the iterator fails on a commit it cannot load
RECURSIVE AheadLoop(_, _, _, _, _)
AheadLoop(par, gone, c, baseHash, commits) ==
    IF c = 0 THEN [commits |-> commits, err |-> ""]
    ELSE IF c \in gone THEN [commits |-> commits, err |-> "object not found"]
    ELSE IF CommitHash(c) = baseHash THEN [commits |-> commits, err |-> "reached base"]
    ELSE AheadLoop(par, gone, par[c], baseHash, Append(commits, CommitInfo(c)))

Failed(why) == [err |-> why, commits |-> <<>>]

\* the function that returns every error of the walk
GetCommitsAheadStrict(rs, hd, par, gone, base) ==
    IF hd = <<>> THEN Failed("failed to get HEAD")
    ELSE LET local == Reference(rs, BranchRefName(base))
             remote == Reference(rs, RemoteRefName("origin", base))
             baseRef == IF local # <<>> THEN local ELSE remote
         IN  IF baseRef = <<>> THEN Failed("failed to find base branch")
             ELSE IF hd[1].hash \in gone THEN Failed("failed to get log")
             ELSE LET walk == AheadLoop(par, gone, hd[1].hash, CommitHash(baseRef[1].hash), <<>>)
                  IN  IF walk.err \notin {"", "reached base"}
                      THEN Failed(walk.err)
                      ELSE [err |-> "", commits |-> walk.commits]

GetCommitsAhead(rs, hd, par, gone, base) ==
    IF hd = <<>> THEN Failed("failed to get HEAD")
    ELSE LET local == Reference(rs, BranchRefName(base))
             remote == Reference(rs, RemoteRefName("origin", base))
             baseRef == IF local # <<>> THEN local ELSE remote
         IN  IF baseRef = <<>> THEN Failed("failed to find base branch")
             ELSE IF hd[1].hash \in gone THEN Failed("failed to get log")
             ELSE LET walk == AheadLoop(par, gone, hd[1].hash, CommitHash(baseRef[1].hash), <<>>)
                  IN  IF walk.err \notin {"", "reached base"} /\ Len(walk.commits) = 0
                      THEN Failed(walk.err)
                      ELSE [err |-> "", commits |-> walk.commits]

DiffFailed(why) == [err |-> why, diff |-> ""]

\* GetDiffFromBase; patch is the outcome of the diff of the two trees: <<>> when a tree
\* cannot be loaded or the diff fails, else <<the patches written>>
GetDiffFromBase(rs, hd, gone, base, patch) ==
    IF hd = <<>> THEN DiffFailed("failed to get HEAD")
    ELSE IF hd[1].hash \in gone THEN DiffFailed("failed to get HEAD commit")
    ELSE LET local == Reference(rs, BranchRefName(base))
             remote == Reference(rs, RemoteRefName("origin", base))
             baseRef == IF local # <<>> THEN local ELSE remote
         IN  IF baseRef = <<>> THEN DiffFailed("failed to find base branch")
             ELSE IF baseRef[1].hash \in gone THEN DiffFailed("failed to get base commit")
             ELSE IF patch = <<>> THEN DiffFailed("failed to calculate diff")
             ELSE [err |-> "", diff |-> patch[1]]

(***************************************************************************)
(* Inputs of the reply interpreter.                                        *)
(***************************************************************************)
SeqsUpTo(S, n) == UNION {[1..k -> S] : k \in 0..n}

RECURSIVE Concat(_)
Concat(parts) == IF Len(parts) = 0 THEN "" ELSE parts[1] \o Concat(Tail(parts))

MaxReplyLines == 3
MaxTitleTokens == 2
MaxCommitTokens == 5

\* lines a model reply is made of
PRLines ==
    {"", "  ", "Title: Fix bug", "title: \"Up\"", "TITLE: Fix bug", "Title:", "Fix bug", "# Head",
     "\"\"",
     "Description:", "description: Body", "Fixes it."}

FreeReplies == {Join(ls, "\n") : ls \in SeqsUpTo(PRLines, MaxReplyLines)}

\* titles and descriptions of the two reply forms
TitleTokens == {"Fix", " ", "#", "\"", "title", ":"}
Titles == {Concat(ts) : ts \in SeqsUpTo(TitleTokens, MaxTitleTokens)} \cup {"Fix bug", "Fix\nbug"}
Descs == {"Fixes it.", "", "Line 1\nLine 2", "a\n\nb", " pad ", "Description: x", "x\n  description: y"}

Structured(T, D) == "Title: " \o T \o "\n\nDescription:\n" \o D
Bare(T, D) == T \o "\n\n" \o D

\* a reply: its text, and for the two forms the title and description it was written from
Reply(form, T, D, text) == [form |-> form, T |-> T, D |-> D, text |-> text]

PRReplies ==
    {Reply("free", "", "", text) : text \in FreeReplies}
        \cup {Reply("structured", T, D, Structured(T, D)) : T \in Titles, D \in Descs}
        \cup {Reply("bare", T, D, Bare(T, D)) : T \in Titles, D \in Descs}

\* texts of a commit-message reply
CommitTokens == {"Add x", "\"", "'", Backquote, " ", "\n"}
CommitReplies ==
    {Reply("commit", "", "", Concat(ts)) : ts \in SeqsUpTo(CommitTokens, MaxCommitTokens)}

(***************************************************************************)
(* The reply interpreter under call.                                       *)
(***************************************************************************)
RepoIdle == refs = <<>> /\ hasRemote = FALSE /\ head = <<>> /\ parent = <<>> /\ missing = {}
StageIdle == status = <<>> /\ hasHead = FALSE
CmdIdle ==
    cmd = "" /\ pc = "" /\ env = <<>> /\ calls = <<>> /\ outcome = <<>> /\ payload = <<>>

\* lines handed to the description parser
DescLines == {"", "  ", "Description:", "description: Body", "Fixes it.", " - item ", "Line 2"}
DescLineLists == {[lines |-> ls] : ls \in SeqsUpTo(DescLines, MaxReplyLines)}

InitLLM ==
    /\ \/ fn = "parsePRContent" /\ arg \in PRReplies
       \/ fn = "GenerateCommitMessage" /\ arg \in CommitReplies
       \/ fn = "parseDescription" /\ arg \in DescLineLists
    /\ res = <<>>
    /\ RepoIdle /\ StageIdle /\ CmdIdle

\* GeneratePRContent hands the reply to parsePRContent
CallParsePRContent ==
    /\ fn = "parsePRContent" /\ res = <<>>
    /\ res' = <<parsePRContent(arg.text)>>
    /\ UNCHANGED <<fn, arg, repoVars, stageVars, cmdVars>>

\* GenerateCommitMessage returns the cleaned reply
ReturnCommitMessage ==
    /\ fn = "GenerateCommitMessage" /\ res = <<>>
    /\ res' = <<ParseCommitMessage(arg.text)>>
    /\ UNCHANGED <<fn, arg, repoVars, stageVars, cmdVars>>

\* parsePRContent hands the lines after the title to parseDescription
CallParseDescription ==
    /\ fn = "parseDescription" /\ res = <<>>
    /\ res' = <<parseDescription(arg.lines)>>
    /\ UNCHANGED <<fn, arg, repoVars, stageVars, cmdVars>>

NextLLM == CallParsePRContent \/ ReturnCommitMessage \/ CallParseDescription

SpecLLM == InitLLM /\ [][NextLLM]_vars

Parsed == fn = "parsePRContent" /\ res # <<>>
CommitMessageReturned == fn = "GenerateCommitMessage" /\ res # <<>>

(* C6: parsePRContent returns a non-empty title for every reply that holds *)
(* at least one non-blank line (a bare "Title:" line and a line of only    *)
(* quote or # characters included).                                        *)
C6_TitleNonEmpty ==
    (Parsed /\ TrimSpace(arg.text) # "") => res[1].Title # ""

\* the lines of a description, none starting with the description marker
NoMarkerLine(D) ==
    \A i \in 1..Len(Split(D, "\n")) : ~HasPrefix(ToLower(Split(D, "\n")[i]), "description:")
NoMarkerLineTrimmed(D) ==
    \A i \in 1..Len(Split(D, "\n")) :
        ~HasPrefix(ToLower(TrimSpace(Split(D, "\n")[i])), "description:")

\* the claim's condition on T and D
FormsPre(T, D) ==
    /\ ~Contains(T, "\n") /\ TrimSpace(T) # ""
    /\ ~HasPrefix(ToLower(T), "title:")
    /\ Char(T, 1) \notin TitleCutset
    /\ NoMarkerLine(D)

\* the condition under which both forms return T and D themselves
FormsPreAmended(T, D) ==
    /\ ~Contains(T, "\n") /\ T # "" /\ T = TrimSpace(T)
    /\ ~HasPrefix(ToLower(T), "title:")
    /\ Char(T, 1) \notin TitleCutset /\ Char(T, Len(T)) \notin TitleCutset
    /\ D = TrimSpace(D)
    /\ NoMarkerLineTrimmed(D)

(* C7 as stated: for every single-line title T (not blank, not starting    *)
(* with a title marker or a quote or # character) and description D (no    *)
(* line starting with a description marker), the structured reply and the  *)
(* bare reply both parse to {title: T, description: D}.                    *)
C7_FormsAgree_Original ==
    (Parsed /\ arg.form \in {"structured", "bare"} /\ FormsPre(arg.T, arg.D))
        => res[1] = [Title |-> arg.T, Description |-> arg.D]

(* C7 amended: the same, for T that also has no surrounding whitespace and *)
(* does not end with a quote or # character, and D that has no surrounding *)
(* whitespace and no line whose trimmed text starts with a description     *)
(* marker.                                                                 *)
C7_FormsAgree ==
    (Parsed /\ arg.form \in {"structured", "bare"} /\ FormsPreAmended(arg.T, arg.D))
        => res[1] = [Title |-> arg.T, Description |-> arg.D]

C7_Witness ==
    /\ Parsed /\ arg.form = "structured"
    /\ arg.T = "Fix bug" /\ arg.D = "Line 1\nLine 2"
    /\ FormsPreAmended(arg.T, arg.D)
    /\ res[1] = [Title |-> "Fix bug", Description |-> "Line 1\nLine 2"]

TitleLines(lines) ==
    {i \in 1..Len(lines) : HasPrefix(ToLower(TrimSpace(lines[i])), "title:")}
NonBlankLines(lines) == {i \in 1..Len(lines) : TrimSpace(lines[i]) # ""}

(* C8: when some line of the reply, trimmed and lower-cased, starts with   *)
(* "title:", the title comes from the first such line and the description  *)
(* from the lines strictly after it, also when non-blank lines precede it; *)
(* the first non-blank line is the title only when no line is marked.      *)
C8_FirstTitleLineWins ==
    Parsed =>
        LET lines == Split(TrimSpace(arg.text), "\n")
        IN  IF TitleLines(lines) # {}
            THEN LET k == Min(TitleLines(lines))
                 IN  res[1] = [Title |-> CleanTitle(MarkedTitle(TrimSpace(lines[k]))),
                               Description |-> RestDescription(lines, k)]
            ELSE NonBlankLines(lines) # {} =>
                 LET k == Min(NonBlankLines(lines))
                 IN  res[1] = [Title |-> CleanTitle(FallbackTitle(TrimSpace(lines[k]))),
                               Description |-> RestDescription(lines, k)]

IsQuoteRun(s) == \A i \in 1..Len(s) : Char(s, i) \in QuoteChars

\* r is t without one quote character at each end that has one
OneLayerOff(t, r) ==
    LET a == IF Len(t) > 0 /\ Char(t, 1) \in QuoteChars THEN 1 ELSE 0
        b == IF Len(t) > a /\ Char(t, Len(t)) \in QuoteChars THEN 1 ELSE 0
    IN  r = SubSeq(t, 1 + a, Len(t) - b)

\* r is t without its leading and its trailing run of quote characters
AllLayersOff(t, r) ==
    \E i \in 0..Len(t), j \in 0..Len(t) :
        /\ i <= j /\ r = SubSeq(t, i + 1, j)
        /\ IsQuoteRun(SubSeq(t, 1, i)) /\ IsQuoteRun(SubSeq(t, j + 1, Len(t)))
        /\ r # "" => (Char(r, 1) \notin QuoteChars /\ Char(r, Len(r)) \notin QuoteChars)
        /\ r = "" => j = Len(t)

(* C9 as stated: the returned commit message is the reply trimmed of       *)
(* surrounding whitespace, then with one layer of quote characters removed *)
(* from each end independently, so that a message in two nested layers of  *)
(* quotes keeps its inner layer.                                           *)
C9_OneQuoteLayer_Original ==
    CommitMessageReturned => OneLayerOff(TrimSpace(arg.text), res[1])

(* C9 amended: the returned commit message is the reply trimmed of         *)
(* surrounding whitespace, then with every leading and every trailing      *)
(* quote character removed, each end independently; a message in two       *)
(* nested layers of quotes loses both, and a message without quotes at its *)
(* ends is returned as trimmed of whitespace.                              *)
C9_AllQuoteLayers ==
    CommitMessageReturned =>
        /\ AllLayersOff(TrimSpace(arg.text), res[1])
        /\ (OneLayerOff(TrimSpace(arg.text), TrimSpace(arg.text)) => res[1] = TrimSpace(arg.text))

C9_Witness ==
    /\ CommitMessageReturned
    /\ arg.text = "\"'Add x'\""
    /\ res[1] = "Add x"

(***************************************************************************)
(* internal/github: ParseRemoteURL.                                        *)
(***************************************************************************)

\* the literal heads of the two patterns: git@github\.com[:/] and https?://github\.com/
SSHHeads == {"git@github.com:", "git@github.com/"}
HTTPSHeads == {"https://github.com/", "http://github.com/"}

\* the pattern whose name group is greedy: ([^/]+)/([^/]+)(?:\.git)?$
OwnerAndNameGreedy(rest) ==
    LET slashes == {i \in 1..Len(rest) : Char(rest, i) = "/"}
    IN  IF Cardinality(slashes) # 1 THEN <<>>
        ELSE LET k == Min(slashes)
                 owner == SubSeq(rest, 1, k - 1)
                 tail == SubSeq(rest, k + 1, Len(rest))
             IN  IF owner = "" \/ tail = "" THEN <<>>
                 ELSE <<[Owner |-> owner, Name |-> tail]>>

\* ([^/]+)/([^/]+?)(?:\.git)?$ on the text after the head: <<>> when it does not match
OwnerAndName(rest) ==
    LET slashes == {i \in 1..Len(rest) : Char(rest, i) = "/"}
    IN  IF Cardinality(slashes) # 1 THEN <<>>
        ELSE LET k == Min(slashes)
                 owner == SubSeq(rest, 1, k - 1)
                 tail == SubSeq(rest, k + 1, Len(rest))
                 \* the lazy group takes the fewest characters that let the rest match
                 name == IF Len(tail) > 4 /\ HasSuffix(tail, ".git")
                         THEN SubSeq(tail, 1, Len(tail) - 4) ELSE tail
             IN  IF owner = "" \/ tail = "" THEN <<>>
                 ELSE <<[Owner |-> owner, Name |-> name]>>

\* the match of a pattern that starts at position i of url, <<>> when none does
SubmatchAt(url, i, heads) ==
    LET from == SubSeq(url, i, Len(url))
        hs == {h \in heads : HasPrefix(from, h)}
    IN  IF hs = {} THEN <<>>
        ELSE OwnerAndName(SubSeq(from, Len(CHOOSE h \in hs : TRUE) + 1, Len(from)))

\* regexp.FindStringSubmatch: the pattern is not anchored at the start, the leftmost match wins
FindStringSubmatch(url, heads) ==
    LET starts == {i \in 1..Len(url) : SubmatchAt(url, i, heads) # <<>>}
    IN  IF starts = {} THEN <<>> ELSE SubmatchAt(url, Min(starts), heads)

ParseRemoteURL(rawurl) ==
    LET url == TrimSpace(rawurl)
        ssh == FindStringSubmatch(url, SSHHeads)
        https == FindStringSubmatch(url, HTTPSHeads)
    IN  IF ssh # <<>> THEN [err |-> FALSE, Owner |-> ssh[1].Owner, Name |-> ssh[1].Name]
        ELSE IF https # <<>>
        THEN [err |-> FALSE, Owner |-> https[1].Owner, Name |-> https[1].Name]
        ELSE [err |-> TRUE, Owner |-> "", Name |-> ""]

MaxPad == 1

RECURSIVE Spaces(_)
Spaces(n) == IF n = 0 THEN "" ELSE " " \o Spaces(n - 1)

\* remote URLs: what precedes the host part, the host part, owner, separator, name, extension
URLLeads == {"", "x", "https://evil.example/"}
URLHosts ==
    {"git@github.com:", "git@github.com/", "https://github.com/", "http://github.com/",
     "https://gitlab.com/", "git@gitlab.com:", "ftp://github.com/", ""}
URLOwners == {"owner", "my-org", ""}
URLSeps == {"/", ""}
URLNames == {"repo", "my_repo", "", "r.git", "repo/extra"}
URLExts == {"", ".git"}

RemoteURL(lead, host, owner, sep, name, ext, padl, padr) ==
    [lead |-> lead, host |-> host, owner |-> owner, sep |-> sep, name |-> name, ext |-> ext,
     text |-> Spaces(padl) \o lead \o host \o owner \o sep \o name \o ext \o Spaces(padr)]

RemoteURLs ==
    {RemoteURL(lead, host, owner, sep, name, ext, padl, padr) :
        lead \in URLLeads, host \in URLHosts, owner \in URLOwners, sep \in URLSeps,
        name \in URLNames, ext \in URLExts, padl \in 0..MaxPad, padr \in 0..MaxPad}
      \cup {RemoteURL("", "", "", "", "not a url", "", 0, 0)}

InitURL ==
    /\ fn = "ParseRemoteURL" /\ arg \in RemoteURLs /\ res = <<>>
    /\ RepoIdle /\ StageIdle /\ CmdIdle

CallParseRemoteURL ==
    /\ fn = "ParseRemoteURL" /\ res = <<>>
    /\ res' = <<ParseRemoteURL(arg.text)>>
    /\ UNCHANGED <<fn, arg, repoVars, stageVars, cmdVars>>

NextURL == CallParseRemoteURL

SpecURL == InitURL /\ [][NextURL]_vars

URLParsed == fn = "ParseRemoteURL" /\ res # <<>>

\* u is, as a whole, git@github.com:owner/repo[.git] or https://github.com/owner/repo[.git]
WholeForm(u) ==
    \E h \in {"git@github.com:", "https://github.com/"} :
        /\ HasPrefix(u, h)
        /\ LET rest == TrimPrefix(u, h)
               slashes == {i \in 1..Len(rest) : Char(rest, i) = "/"}
           IN  /\ Cardinality(slashes) = 1
               /\ Min(slashes) > 1 /\ Min(slashes) < Len(rest)

(* C10: ParseRemoteURL returns an error for every input that is not, as a  *)
(* whole after trimming surrounding whitespace, of the form                *)
(* git@github.com:owner/repo[.git] or https://github.com/owner/repo[.git]: *)
(* other hosts and schemes, a missing repository, "", arbitrary text, and  *)
(* text that merely ends with an accepted form.                            *)
C10_RejectsAllElse ==
    (URLParsed /\ ~WholeForm(TrimSpace(arg.text))) => res[1].err

\* ReferenceName.Short of a branch reference
ShortName(name) == TrimPrefix(name, "refs/heads/")

\* the function that takes a missing remote-tracking reference for a failure
NeedsPushMissingIsError(rs, hd) ==
    IF hd = <<>> THEN [err |-> "failed to get HEAD", needsPush |-> FALSE]
    ELSE LET remoteRef == Reference(rs, RemoteRefName("origin", ShortName(hd[1].name)))
         IN  IF remoteRef = <<>> THEN [err |-> "reference not found", needsPush |-> FALSE]
             ELSE [err |-> "", needsPush |-> hd[1].hash # remoteRef[1].hash]

NeedsPush(rs, hd) ==
    IF hd = <<>> THEN [err |-> "failed to get HEAD", needsPush |-> FALSE]
    ELSE LET remoteRef == Reference(rs, RemoteRefName("origin", ShortName(hd[1].name)))
         IN  IF remoteRef = <<>> THEN [err |-> "", needsPush |-> TRUE]
             ELSE [err |-> "", needsPush |-> hd[1].hash # remoteRef[1].hash]

(***************************************************************************)
(* The repository's references under GetDefaultBranch.                     *)
(***************************************************************************)
MaxRefs == 3

RefNames ==
    {"refs/heads/main", "refs/heads/master", "refs/heads/feature",
     "refs/remotes/origin/main", "refs/remotes/origin/master",
     "refs/remotes/origin/feature", "refs/remotes/origin/maintenance"}

RefHashes == {1, 2}

\* reference stores: distinct names, in the order the storage iterates them
RefLists ==
    {rs \in SeqsUpTo([name : RefNames, hash : RefHashes], MaxRefs) :
        \A i, j \in 1..Len(rs) : i # j => rs[i].name # rs[j].name}

\* HEAD cannot be resolved, or it is on one of the local branches
Heads(rs) ==
    {<<>>} \cup {<<rs[i]>> : i \in {j \in 1..Len(rs) : HasPrefix(rs[j].name, "refs/heads/")}}

InitRefs ==
    /\ fn \in {"GetDefaultBranch", "NeedsPush"} /\ arg = <<>> /\ res = <<>>
    /\ refs \in RefLists /\ hasRemote \in BOOLEAN
    /\ head \in Heads(refs) /\ parent = [c \in RefHashes |-> c - 1] /\ missing = {}
    /\ StageIdle /\ CmdIdle

CallGetDefaultBranch ==
    /\ fn = "GetDefaultBranch" /\ res = <<>>
    /\ res' = <<GetDefaultBranch(refs, hasRemote)>>
    /\ UNCHANGED <<fn, arg, repoVars, stageVars, cmdVars>>

CallNeedsPush ==
    /\ fn = "NeedsPush" /\ res = <<>>
    /\ res' = <<NeedsPush(refs, head)>>
    /\ UNCHANGED <<fn, arg, repoVars, stageVars, cmdVars>>

\* runPR hands the name GetDefaultBranch returned to GetCommitsAhead
CallGetCommitsAheadOfDefault ==
    /\ fn = "GetDefaultBranch" /\ res # <<>> /\ ~res[1].err
    /\ fn' = "GetCommitsAhead" /\ arg' = res[1].branch
    /\ res' = <<GetCommitsAhead(refs, head, parent, missing, res[1].branch)>>
    /\ UNCHANGED <<repoVars, stageVars, cmdVars>>

\* runPR hands the name GetDefaultBranch returned to GetDiffFromBase
CallGetDiffFromDefault ==
    /\ fn = "GetDefaultBranch" /\ res # <<>> /\ ~res[1].err
    /\ fn' = "GetDiffFromBase" /\ arg' = res[1].branch
    /\ \E patch \in {<<>>, <<"">>, <<"diff --git a/a.go b/a.go\n">>} :
          res' = <<GetDiffFromBase(refs, head, missing, res[1].branch, patch)>>
    /\ UNCHANGED <<repoVars, stageVars, cmdVars>>

NextRefs ==
    \/ CallGetDefaultBranch \/ CallNeedsPush
    \/ CallGetCommitsAheadOfDefault \/ CallGetDiffFromDefault

SpecRefs == InitRefs /\ [][NextRefs]_vars

DefaultBranchReturned == fn = "GetDefaultBranch" /\ res # <<>>
RefNameSet == {refs[i].name : i \in 1..Len(refs)}

(* C3: GetDefaultBranch returns "main" whenever a local branch main exists, *)
(* whatever else exists; otherwise "master" whenever a local branch master  *)
(* exists, whatever remote-tracking references exist (origin/main too).     *)
C3_LocalPriority ==
    DefaultBranchReturned =>
        /\ "refs/heads/main" \in RefNameSet => res[1] = [err |-> FALSE, branch |-> "main"]
        /\ ("refs/heads/main" \notin RefNameSet /\ "refs/heads/master" \in RefNameSet)
               => res[1] = [err |-> FALSE, branch |-> "master"]

C3_Witness ==
    /\ DefaultBranchReturned /\ hasRemote
    /\ "refs/heads/main" \notin RefNameSet
    /\ {"refs/heads/master", "refs/remotes/origin/main"} \subseteq RefNameSet
    /\ refs[1].name = "refs/remotes/origin/main"
    /\ res[1].branch = "master"

(***************************************************************************)
(* The history under GetCommitsAhead.                                      *)
(***************************************************************************)
MaxCommits == 4

Commits == 1..MaxCommits

\* histories without merge commits: every commit has at most one parent, an older commit
Histories == {par \in [Commits -> 0..(MaxCommits - 1)] : \A c \in Commits : par[c] < c}

\* the references of the base branch: a local branch, a remote-tracking reference, both, none
BaseRefs(base, lh, rh) ==
    (IF lh = 0 THEN <<>> ELSE <<[name |-> BranchRefName(base), hash |-> lh]>>)
        \o (IF rh = 0 THEN <<>> ELSE <<[name |-> RemoteRefName("origin", base), hash |-> rh]>>)

InitLog ==
    /\ fn = "GetCommitsAhead" /\ arg = "main" /\ res = <<>>
    /\ parent \in Histories
    /\ \E h \in 0..MaxCommits, lh \in 0..MaxCommits, rh \in 0..MaxCommits :
          /\ head = IF h = 0 THEN <<>> ELSE <<[name |-> BranchRefName("feature"), hash |-> h]>>
          /\ refs = BaseRefs("main", lh, rh)
                       \o (IF h = 0 THEN <<>> ELSE <<[name |-> BranchRefName("feature"), hash |-> h]>>)
    /\ missing \in {{}} \cup {{c} : c \in Commits}
    /\ hasRemote = TRUE
    /\ StageIdle /\ CmdIdle

CallGetCommitsAhead ==
    /\ fn = "GetCommitsAhead" /\ res = <<>>
    /\ res' = <<GetCommitsAhead(refs, head, parent, missing, arg)>>
    /\ UNCHANGED <<fn, arg, repoVars, stageVars, cmdVars>>

NextLog == CallGetCommitsAhead

SpecLog == InitLog /\ [][NextLog]_vars

CommitsAheadReturned == fn = "GetCommitsAhead" /\ res # <<>>

\* the commits from c back to the root, newest first
RECURSIVE Ancestry(_)
Ancestry(c) == IF c = 0 THEN <<>> ELSE <<c>> \o Ancestry(parent[c])

\* the commit the base name resolves to: the local branch, else origin's, else 0
BaseTip ==
    IF BranchRefName(arg) \in RefNameSet
    THEN (CHOOSE r \in {refs[i] : i \in 1..Len(refs)} : r.name = BranchRefName(arg)).hash
    ELSE IF RemoteRefName("origin", arg) \in RefNameSet
    THEN (CHOOSE r \in {refs[i] : i \in 1..Len(refs)} : r.name = RemoteRefName("origin", arg)).hash
    ELSE 0

\* the linear history HEAD = Hn -> ... -> H1 -> Base: the commits before the base tip
AheadOfBase ==
    LET line == Ancestry(head[1].hash)
        k == CHOOSE i \in 1..Len(line) : line[i] = BaseTip
    IN  SubSeq(line, 1, k - 1)

LinearToBase ==
    /\ head # <<>> /\ BaseTip # 0
    /\ \E i \in 1..Len(Ancestry(head[1].hash)) : Ancestry(head[1].hash)[i] = BaseTip
    /\ \A i \in 1..Len(AheadOfBase) : AheadOfBase[i] \notin missing
    /\ BaseTip \notin missing

\* info is the reference to commit c: its 7-character hash and the first line of its message
RefersTo(info, c) ==
    /\ Len(info.Hash) = 7 /\ HasPrefix(CommitHash(c), info.Hash)
    /\ ~Contains(info.Message, "\n") /\ HasPrefix(CommitMessage(c), info.Message)
    /\ info.Message = CommitMessage(c) \/ HasPrefix(CommitMessage(c), info.Message \o "\n")

(* C2: on a linear history HEAD = Hn -> ... -> H1 -> Base, GetCommitsAhead  *)
(* returns exactly Hn, ..., H1, newest first: the commit whose hash is the  *)
(* base tip is not included, nor any commit visited after it.               *)
C2_StopsBeforeBase ==
    (CommitsAheadReturned /\ LinearToBase) =>
        /\ res[1].err = ""
        /\ Len(res[1].commits) = Len(AheadOfBase)
        /\ \A i \in 1..Len(AheadOfBase) : RefersTo(res[1].commits[i], AheadOfBase[i])

C2_Witness ==
    /\ CommitsAheadReturned /\ LinearToBase
    /\ Len(AheadOfBase) >= 2 /\ parent[BaseTip] # 0
    /\ Len(res[1].commits) = Len(AheadOfBase)

(***************************************************************************)
(* internal/git: the line-presence diff of a modified file.                *)
(***************************************************************************)
\* fmt.Sprintf("-%s\n", line), fmt.Sprintf("+%s\n", line)
DiffLine(prefix, line) == prefix \o line \o "\n"

\* the map[string]bool filled from a slice of lines: its keys
LineSet(lines) == {lines[i] : i \in 1..Len(lines)}

\* one pass over lines from index i: a line that is no key of other is written
RECURSIVE EmitAbsent(_, _, _, _, _)
EmitAbsent(lines, i, other, prefix, result) ==
    IF i > Len(lines) THEN result
    ELSE EmitAbsent(lines, i + 1, other, prefix,
                    IF lines[i] \notin other THEN result \o DiffLine(prefix, lines[i]) ELSE result)

\* the pass that compares a line with the line at the same index of the other slice
RECURSIVE EmitMoved(_, _, _, _, _)
EmitMoved(lines, i, other, prefix, result) ==
    IF i > Len(lines) THEN result
    ELSE EmitMoved(lines, i + 1, other, prefix,
                   IF i > Len(other) \/ other[i] # lines[i]
                   THEN result \o DiffLine(prefix, lines[i]) ELSE result)

formatSimpleDiffByPosition(oldLines, newLines) ==
    EmitMoved(newLines, 1, oldLines, "+", EmitMoved(oldLines, 1, newLines, "-", ""))

formatSimpleDiff(oldLines, newLines) ==
    LET oldSet == LineSet(oldLines)
        newSet == LineSet(newLines)
        removed == EmitAbsent(oldLines, 1, newSet, "-", "")
    IN  EmitAbsent(newLines, 1, oldSet, "+", removed)

MaxLines == 3

LineTexts == {"a", "b", "c", "d"}

InitDiff ==
    /\ fn = "formatSimpleDiff" /\ res = <<>>
    /\ arg \in [old : SeqsUpTo(LineTexts, MaxLines), new : SeqsUpTo(LineTexts, MaxLines)]
    /\ RepoIdle /\ StageIdle /\ CmdIdle

CallFormatSimpleDiff ==
    /\ fn = "formatSimpleDiff" /\ res = <<>>
    /\ res' = <<formatSimpleDiff(arg.old, arg.new)>>
    /\ UNCHANGED <<fn, arg, repoVars, stageVars, cmdVars>>

NextDiff == CallFormatSimpleDiff

SpecDiff == InitDiff /\ [][NextDiff]_vars

SimpleDiffReturned == fn = "formatSimpleDiff" /\ res # <<>>

\* the lines of a document in which every line ends with a newline
LinesOf(doc) == LET parts == Split(doc, "\n") IN SubSeq(parts, 1, Len(parts) - 1)

(* C4: for every pair of line sequences (old, new), formatSimpleDiff writes  *)
(* exactly each old line whose text occurs nowhere in new, prefixed "-", in  *)
(* old order, then each new line whose text occurs nowhere in old, prefixed  *)
(* "+", in new order; no "-" line follows a "+" line, and a text occurring   *)
(* in both sequences is never written, whatever its position or count.       *)
C4_PresenceSetDiff ==
    SimpleDiffReturned =>
        LET old == arg.old
            new == arg.new
            removed == SelectSeq(old, LAMBDA l : \A j \in 1..Len(new) : new[j] # l)
            added == SelectSeq(new, LAMBDA l : \A j \in 1..Len(old) : old[j] # l)
            out == LinesOf(res[1])
        IN  /\ Len(out) = Len(removed) + Len(added)
            /\ \A i \in 1..Len(removed) : out[i] = "-" \o removed[i]
            /\ \A i \in 1..Len(added) : out[Len(removed) + i] = "+" \o added[i]
            /\ res[1] = Concat([i \in 1..Len(out) |-> out[i] \o "\n"])
            /\ \A i, j \in 1..Len(out) :
                  (HasPrefix(out[i], "+") /\ HasPrefix(out[j], "-")) => j < i
            /\ \A i \in 1..Len(old), j \in 1..Len(new), k \in 1..Len(out) :
                  old[i] = new[j] => out[k] \notin {"-" \o old[i], "+" \o old[i]}

C4_Witness ==
    /\ SimpleDiffReturned
    /\ arg.old = <<"a", "b", "c">> /\ arg.new = <<"a", "b", "d">>
    /\ res[1] = "-c\n+d\n"

(***************************************************************************)
(* internal/git: the staged diff.  status maps a path to its entry: the    *)
(* staging state, what the index holds for the path (idx) and what the     *)
(* tree of HEAD holds for it (head); hasHead says that the tree of HEAD    *)
(* could be loaded.  A blob reader hands over the whole blob in one Read.  *)
(***************************************************************************)
Unmodified == "Unmodified"
Untracked == "Untracked"
Added == "Added"
Modified == "Modified"
Deleted == "Deleted"
Renamed == "Renamed"

NoEntry == "<no index entry>"
NoBlob == "<blob not readable>"
NoFile == "<not in tree>"

\* one formatted line for each element of lines
RECURSIVE PrefixLines(_, _)
PrefixLines(prefix, lines) ==
    IF Len(lines) = 0 THEN "" ELSE DiffLine(prefix, lines[1]) \o PrefixLines(prefix, Tail(lines))

\* case git.Added that writes one line for each newline-terminated line only
AddedBlockPerLine(filePath, fileStatus) ==
    "new file\n"
        \o (IF fileStatus.idx \in {NoEntry, NoBlob} THEN ""
            ELSE "+++ b/" \o filePath \o "\n"
                     \o PrefixLines("+",
                            LET parts == Split(fileStatus.idx, "\n")
                            IN  IF parts[Len(parts)] = ""
                                THEN SubSeq(parts, 1, Len(parts) - 1) ELSE parts))

\* case git.Added
AddedBlock(filePath, fileStatus) ==
    "new file\n"
        \o (IF fileStatus.idx \in {NoEntry, NoBlob} THEN ""
            ELSE "+++ b/" \o filePath \o "\n"
                     \o PrefixLines("+", Split(fileStatus.idx, "\n")))

\* case git.Modified
ModifiedBlock(filePath, fileStatus, headTree) ==
    IF headTree /\ fileStatus.head # NoFile
    THEN "--- a/" \o filePath \o "\n" \o "+++ b/" \o filePath \o "\n"
             \o (IF fileStatus.idx \in {NoEntry, NoBlob} THEN ""
                 ELSE formatSimpleDiff(Split(fileStatus.head, "\n"), Split(fileStatus.idx, "\n")))
    ELSE ""

\* case git.Deleted
DeletedBlock(filePath, fileStatus, headTree) ==
    "deleted file\n"
        \o (IF headTree /\ fileStatus.head # NoFile
            THEN "--- a/" \o filePath \o "\n" \o PrefixLines("-", Split(fileStatus.head, "\n"))
            ELSE "")

\* the body of the loop over status, for one path
FileBlock(filePath, fileStatus, headTree) ==
    IF fileStatus.staging \in {Unmodified, Untracked} THEN ""
    ELSE "diff --git a/" \o filePath \o " b/" \o filePath \o "\n"
             \o (CASE fileStatus.staging = Added -> AddedBlock(filePath, fileStatus)
                   [] fileStatus.staging = Modified -> ModifiedBlock(filePath, fileStatus, headTree)
                   [] fileStatus.staging = Deleted -> DeletedBlock(filePath, fileStatus, headTree)
                   [] OTHER -> "")
             \o "\n"

StagedDiffFailed(why) == [err |-> why, diff |-> ""]

\* a walk that gives up at an entry whose content cannot be read
GetStagedDiffStrict(st, headTree, order, failure) ==
    IF failure = "worktree" THEN StagedDiffFailed("failed to get worktree")
    ELSE IF failure = "status" THEN StagedDiffFailed("failed to get status")
    ELSE IF failure = "index" THEN StagedDiffFailed("failed to get index")
    ELSE IF \E i \in 1..Len(order) :
                \/ st[order[i]].staging \in {Added, Modified}
                       /\ st[order[i]].idx \in {NoEntry, NoBlob}
                \/ st[order[i]].staging \in {Modified, Deleted} /\ st[order[i]].head = NoFile
    THEN StagedDiffFailed("failed to read entry")
    ELSE [err |-> "",
          diff |-> Concat([i \in 1..Len(order) |-> FileBlock(order[i], st[order[i]], headTree)])]

\* the loop of HasStagedChanges that takes an untracked file for a staged one
HasStagedChangesCountsUntracked(st, order, failure) ==
    IF failure = "worktree" THEN [err |-> "failed to get worktree", changes |-> FALSE]
    ELSE IF failure = "status" THEN [err |-> "failed to get status", changes |-> FALSE]
    ELSE [err |-> "",
          changes |-> \E i \in 1..Len(order) : st[order[i]].staging # Unmodified]

HasStagedChanges(st, order, failure) ==
    IF failure = "worktree" THEN [err |-> "failed to get worktree", changes |-> FALSE]
    ELSE IF failure = "status" THEN [err |-> "failed to get status", changes |-> FALSE]
    ELSE [err |-> "",
          changes |-> \E i \in 1..Len(order) :
                          st[order[i]].staging \notin {Unmodified, Untracked}]

\* order is the order in which the range over the map visits the paths
GetStagedDiff(st, headTree, order, failure) ==
    IF failure = "worktree" THEN StagedDiffFailed("failed to get worktree")
    ELSE IF failure = "status" THEN StagedDiffFailed("failed to get status")
    ELSE IF failure = "index" THEN StagedDiffFailed("failed to get index")
    ELSE [err |-> "",
          diff |-> Concat([i \in 1..Len(order) |-> FileBlock(order[i], st[order[i]], headTree)])]

(***************************************************************************)
(* The index and the tree of HEAD under GetStagedDiff.                     *)
(***************************************************************************)
MaxEntries == 2

PathNames == <<"a.go", "b.go", "c.go">>

Paths == {PathNames[i] : i \in 1..MaxEntries}

Contents == {"", "x\n", "x\ny"}

\* what status, the index and the tree of HEAD can hold for one path
Entries ==
    {[staging |-> Unmodified, idx |-> "x\n", head |-> "x\n"],
     [staging |-> Untracked, idx |-> NoEntry, head |-> NoFile]}
        \cup [staging : {Added}, idx : Contents \cup {NoBlob, NoEntry}, head : {NoFile}]
        \cup {e \in [staging : {Modified}, idx : Contents \cup {NoBlob, NoEntry},
                                         head : Contents \cup {NoFile}] : e.idx # e.head}
        \cup [staging : {Deleted}, idx : {NoEntry}, head : Contents \cup {NoFile}]
        \cup {[staging |-> Renamed, idx |-> "x\n", head |-> NoFile]}

\* the orders in which a range over a map with these keys can visit them
Orders(keys) ==
    {o \in [1..Cardinality(keys) -> keys] : \A i, j \in DOMAIN o : i # j => o[i] # o[j]}

StorageFailures == {"worktree", "status", "index"}

InitStaged ==
    /\ fn \in {"HasStagedChanges", "GetStagedDiff"} /\ arg = <<>> /\ res = <<>>
    /\ \E files \in SUBSET Paths : status \in [files -> Entries]
    /\ hasHead \in BOOLEAN
    /\ RepoIdle /\ CmdIdle

CallGetStagedDiff ==
    /\ fn = "GetStagedDiff" /\ res = <<>>
    /\ \E order \in Orders(DOMAIN status), failure \in StorageFailures \cup {None} :
          res' = <<GetStagedDiff(status, hasHead, order, failure)>>
    /\ UNCHANGED <<fn, arg, repoVars, stageVars, cmdVars>>

CallHasStagedChanges ==
    /\ fn = "HasStagedChanges" /\ res = <<>>
    /\ \E order \in Orders(DOMAIN status), failure \in {"worktree", "status", None} :
          res' = <<HasStagedChanges(status, order, failure)>>
    /\ UNCHANGED <<fn, arg, repoVars, stageVars, cmdVars>>

NextStaged == CallHasStagedChanges \/ CallGetStagedDiff

SpecStaged == InitStaged /\ [][NextStaged]_vars

StagedDiffReturned == fn = "GetStagedDiff" /\ res # <<>> /\ res[1].err = ""

\* every staged entry is Added, and there is one
OnlyAdded ==
    /\ \A f \in DOMAIN status : status[f].staging \in {Added, Unmodified, Untracked}
    /\ \E f \in DOMAIN status : status[f].staging = Added

AddedFiles == {f \in DOMAIN status : status[f].staging = Added}

\* the number of lines of a content: its newline-terminated lines and an unterminated last one
ContentLines(content) ==
    LET parts == Split(content, "\n")
    IN  IF parts[Len(parts)] = "" THEN Len(parts) - 1 ELSE Len(parts)

RECURSIVE SumOver(_, _)
SumOver(files, count) ==
    IF files = {} THEN 0
    ELSE LET f == CHOOSE x \in files : TRUE
         IN  count[f] + SumOver(files \ {f}, count)

PrefixedLines(doc, prefix) ==
    LET out == LinesOf(doc) IN {k \in 1..Len(out) : HasPrefix(out[k], prefix)}

(* C5 as stated: when every staged entry is Added, the document of          *)
(* GetStagedDiff holds exactly one "+"-prefixed line per line of each       *)
(* file's staged content, no more and no fewer, and no "-"-prefixed line.   *)
C5_OnePlusPerLine_Original ==
    (StagedDiffReturned /\ OnlyAdded) =>
        /\ Cardinality(PrefixedLines(res[1].diff, "+"))
              = SumOver({f \in AddedFiles : status[f].idx \notin {NoEntry, NoBlob}},
                        [f \in AddedFiles |-> ContentLines(status[f].idx)])
        /\ PrefixedLines(res[1].diff, "-") = {}

\* the block of an Added path f is in the document: after "new file", when the blob was
\* read, "+++ b/<path>" and one "+" line per element of the content split at newlines
AddedBlockAt(out, k, f) ==
    LET parts == Split(status[f].idx, "\n")
    IN  /\ out[k] = "diff --git a/" \o f \o " b/" \o f
        /\ out[k + 1] = "new file"
        /\ IF status[f].idx \in {NoEntry, NoBlob} THEN out[k + 2] = ""
           ELSE /\ k + 3 + Len(parts) <= Len(out)
                /\ out[k + 2] = "+++ b/" \o f
                /\ \A i \in 1..Len(parts) : out[k + 2 + i] = "+" \o parts[i]
                /\ out[k + 3 + Len(parts)] = ""

(* C5: when every staged entry is Added, the document of GetStagedDiff      *)
(* holds no "-"-prefixed line and, for each entry whose blob is read, the   *)
(* line "+++ b/<path>" followed by exactly one "+"-prefixed line per        *)
(* element of the content split at newlines (a final newline gives a last   *)
(* bare "+" line); an entry whose blob is not read gives no "+" line.       *)
C5_OnePlusPerSplitElement ==
    (StagedDiffReturned /\ OnlyAdded) =>
        LET out == LinesOf(res[1].diff)
        IN  /\ PrefixedLines(res[1].diff, "-") = {}
            /\ Cardinality(PrefixedLines(res[1].diff, "+"))
                  = SumOver({f \in AddedFiles : status[f].idx \notin {NoEntry, NoBlob}},
                            [f \in AddedFiles |-> 1 + Len(Split(status[f].idx, "\n"))])
            /\ \A f \in AddedFiles : \E k \in 1..(Len(out) - 2) : AddedBlockAt(out, k, f)

C5_Witness ==
    /\ StagedDiffReturned /\ OnlyAdded
    /\ Cardinality(AddedFiles) = 2
    /\ \E f \in AddedFiles : status[f].idx = "x\n"
    /\ \E f \in AddedFiles : status[f].idx = "x\ny"
    /\ Cardinality(PrefixedLines(res[1].diff, "+")) = 6

(***************************************************************************)
(* internal/ui: the confirmation of a commit message or of a pull request. *)
(* An outcome of a collaborator is <<>> (it failed) or <<value>>.          *)
(***************************************************************************)
ActionAccept == 0
ActionEdit == 1
ActionCancel == 2

\* the confirmation in which the selection "cancel" is taken for an acceptance
ConfirmCommitCancelAccepts(message, choice, editedMessage) ==
    CASE choice = "edit" ->
            [Action |-> ActionEdit,
             Message |-> IF editedMessage # "" THEN TrimSpace(editedMessage) ELSE message]
      [] OTHER -> [Action |-> ActionAccept, Message |-> message]

\* what ConfirmCommit returns once the select prompt gave choice and, for "edit", the
\* text prompt gave editedMessage; Action starts as the zero value of its type
ConfirmCommit(message, choice, editedMessage) ==
    CASE choice = "accept" -> [Action |-> ActionAccept, Message |-> message]
      [] choice = "edit" ->
            [Action |-> ActionEdit,
             Message |-> IF editedMessage # "" THEN TrimSpace(editedMessage) ELSE message]
      [] choice = "cancel" -> [Action |-> ActionCancel, Message |-> message]
      [] OTHER -> [Action |-> 0, Message |-> message]

\* what ConfirmPR returns once the select prompt gave choice and, for "edit", the form
\* gave newTitle and newDescription
ConfirmPR(title, description, choice, newTitle, newDescription) ==
    CASE choice = "accept" ->
            [Action |-> ActionAccept, Title |-> title, Description |-> description]
      [] choice = "edit" ->
            [Action |-> ActionEdit,
             Title |-> IF newTitle # "" THEN TrimSpace(newTitle) ELSE title,
             Description |-> IF newDescription # "" THEN TrimSpace(newDescription)
                             ELSE description]
      [] choice = "cancel" ->
            [Action |-> ActionCancel, Title |-> title, Description |-> description]
      [] OTHER -> [Action |-> 0, Title |-> title, Description |-> description]

(***************************************************************************)
(* internal/llm: the two generation calls.  resp is the outcome of the     *)
(* chat completion: <<>> or <<choices>>, choices the contents returned.    *)
(***************************************************************************)
GenerateCommitMessage(resp) ==
    IF resp = <<>> THEN [err |-> "failed to generate commit message", message |-> ""]
    ELSE IF Len(resp[1]) = 0 THEN [err |-> "no response from OpenAI", message |-> ""]
    ELSE [err |-> "", message |-> ParseCommitMessage(resp[1][1])]

GeneratePRContent(resp) ==
    IF resp = <<>> THEN [err |-> "failed to generate PR content", content |-> <<>>]
    ELSE IF Len(resp[1]) = 0 THEN [err |-> "no response from OpenAI", content |-> <<>>]
    ELSE [err |-> "", content |-> <<parsePRContent(resp[1][1])>>]

(***************************************************************************)
(* cmd: the commit command.  A run is the calls it made, in order, and     *)
(* either the error it returned with or what it shows at the prompt.       *)
(***************************************************************************)
Returned(log, why) == [calls |-> log, err |-> why, shown |-> <<>>]
Prompting(log, content) == [calls |-> log, err |-> "", shown |-> <<content>>]

\* what the log keeps of the outcome of a call that returns a text, or a truth value
Answer(o) == IF o = <<>> THEN "<failed>" ELSE o[1]
AnswerFlag(o) == IF o = <<>> THEN "<failed>" ELSE IF o[1] THEN "true" ELSE "false"

\* a run that goes on to the diff whatever HasStagedChanges answered
RunCommitToPromptUngated(key, opened, hasStaged, diff, resp) ==
    LET c1 == <<<<"HasStagedChanges", AnswerFlag(hasStaged)>>>>
        c2 == Append(c1, <<"GetStagedDiff", Answer(diff)>>)
        gen == GenerateCommitMessage(resp)
        c3 == Append(c2, <<"GenerateCommitMessage", Answer(diff), gen.err>>)
    IN  IF ~key THEN Returned(<<>>, "OPENAI_API_KEY environment variable is not set")
        ELSE IF ~opened THEN Returned(<<>>, "not a git repository")
        ELSE IF diff = <<>> THEN Returned(c2, "failed to get staged diff")
        ELSE IF diff[1] = "" THEN Returned(c2, "no diff content found for staged changes")
        ELSE IF gen.err # "" THEN Returned(c3, "failed to generate commit message")
        ELSE Prompting(Append(c3, <<"ConfirmCommit", gen.message>>), [Message |-> gen.message])

\* runCommit up to the select prompt of ConfirmCommit
RunCommitToPrompt(key, opened, hasStaged, diff, resp) ==
    LET c1 == <<<<"HasStagedChanges", AnswerFlag(hasStaged)>>>>
        c2 == Append(c1, <<"GetStagedDiff", Answer(diff)>>)
        gen == GenerateCommitMessage(resp)
        c3 == Append(c2, <<"GenerateCommitMessage", Answer(diff), gen.err>>)
    IN  IF ~key THEN Returned(<<>>, "OPENAI_API_KEY environment variable is not set")
        ELSE IF ~opened THEN Returned(<<>>, "not a git repository")
        ELSE IF hasStaged = <<>> THEN Returned(c1, "failed to check staged changes")
        ELSE IF ~hasStaged[1] THEN Returned(c1, "no staged changes found")
        ELSE IF diff = <<>> THEN Returned(c2, "failed to get staged diff")
        ELSE IF diff[1] = "" THEN Returned(c2, "no diff content found for staged changes")
        ELSE IF gen.err # "" THEN Returned(c3, "failed to generate commit message")
        ELSE Prompting(Append(c3, <<"ConfirmCommit", gen.message>>), [Message |-> gen.message])

\* the switch of a run that commits whatever the action is
ActOnCommitResultUnguarded(result, committed) ==
    IF committed = <<>>
    THEN Returned(<<<<"Commit", result.Message>>>>, "failed to create commit")
    ELSE Returned(<<<<"Commit", result.Message>>>>, "")

\* the switch of runCommit on the action of the result; committed is the outcome of Commit
ActOnCommitResult(result, committed) ==
    CASE result.Action = ActionCancel -> Returned(<<>>, "")
      [] result.Action \in {ActionAccept, ActionEdit} ->
            IF committed = <<>>
            THEN Returned(<<<<"Commit", result.Message>>>>, "failed to create commit")
            ELSE Returned(<<<<"Commit", result.Message>>>>, "")
      [] OTHER -> Returned(<<>>, "unexpected action")

(***************************************************************************)
(* cmd: the pr command.                                                    *)
(***************************************************************************)
\* the lines "<hash> <message>" joined for the prompt
CommitsText(commits) ==
    Join([i \in 1..Len(commits) |-> commits[i].Hash \o " " \o commits[i].Message], "\n")

\* the locals of runPR that its last part uses
PRLocals(current, base, remoteURL) ==
    LET repoInfo == ParseRemoteURL(remoteURL[1])
    IN  [currentBranch |-> current[1], baseBranch |-> base[1],
         Owner |-> repoInfo.Owner, Name |-> repoInfo.Name]

\* the test that lets every branch through
NeverOnBaseBranch(currentBranch, baseBranch) == FALSE

\* the test of runPR before any work on the two branches
OnBaseBranch(currentBranch, baseBranch) == currentBranch = baseBranch

\* runPR up to the select prompt of ConfirmPR
RunPRToPrompt(key, token, opened, current, base, commits, diff, remoteURL, resp) ==
    LET c1 == <<<<"GetCurrentBranch", Answer(current)>>>>
        c2 == Append(c1, <<"GetDefaultBranch", Answer(base)>>)
        c3 == Append(c2, <<"GetCommitsAhead", IF base = <<>> THEN "" ELSE base[1]>>)
        c4 == Append(c3, <<"GetDiffFromBase", IF base = <<>> THEN "" ELSE base[1]>>)
        c5 == Append(c4, <<"GetRemoteURL">>)
        c6 == Append(c5, <<"GeneratePRContent",
                           IF commits = <<>> THEN "" ELSE CommitsText(commits[1]),
                           IF diff = <<>> THEN "" ELSE diff[1]>>)
        gen == GeneratePRContent(resp)
    IN  IF ~key THEN Returned(<<>>, "OPENAI_API_KEY environment variable is not set")
        ELSE IF ~token THEN Returned(<<>>, "GITHUB_TOKEN environment variable is not set")
        ELSE IF ~opened THEN Returned(<<>>, "not a git repository")
        ELSE IF current = <<>> THEN Returned(c1, "failed to get current branch")
        ELSE IF base = <<>> THEN Returned(c2, "failed to detect base branch")
        ELSE IF OnBaseBranch(current[1], base[1])
        THEN Returned(c2, "cannot create PR from base branch")
        ELSE IF commits = <<>> THEN Returned(c3, "failed to get commits")
        ELSE IF Len(commits[1]) = 0 THEN Returned(c3, "no commits ahead of base")
        ELSE IF diff = <<>> THEN Returned(c4, "failed to get diff")
        ELSE IF diff[1] = "" THEN Returned(c4, "no changes found compared to base")
        ELSE IF remoteURL = <<>> THEN Returned(c5, "failed to get remote URL")
        ELSE IF ParseRemoteURL(remoteURL[1]).err THEN Returned(c5, "failed to parse GitHub remote")
        ELSE IF gen.err # "" THEN Returned(c6, "failed to generate PR content")
        ELSE Prompting(Append(c6, <<"ConfirmPR", gen.content[1].Title, gen.content[1].Description>>),
                       gen.content[1])

\* the switch of a run that pushes whatever NeedsPush answered
ActOnPRResultPushesAlways(result, locals, needsPush, pushed, created) ==
    LET c1 == <<<<"NeedsPush", AnswerFlag(needsPush)>>>>
        c2 == Append(c1, <<"Push", Answer(pushed)>>)
        c3 == Append(c2, <<"CreatePR", locals.Owner, locals.Name, locals.baseBranch,
                           locals.currentBranch, result.Title, result.Description>>)
    IN  CASE result.Action = ActionCancel -> Returned(<<>>, "")
          [] result.Action \in {ActionAccept, ActionEdit} ->
                IF needsPush = <<>> THEN Returned(c1, "failed to check push status")
                ELSE IF pushed = <<>> THEN Returned(c2, "failed to push branch")
                ELSE IF created = <<>> THEN Returned(c3, "failed to create PR")
                ELSE Returned(c3, "")
          [] OTHER -> Returned(<<>>, "unexpected action")

\* the switch of runPR on the action of the result; needsPush, pushed and created are the
\* outcomes of NeedsPush, Push and CreatePR (the token read again by NewClient is the one
\* checkGitHubToken found set)
ActOnPRResult(result, locals, needsPush, pushed, created) ==
    LET c1 == <<<<"NeedsPush", AnswerFlag(needsPush)>>>>
        c2 == IF needsPush # <<>> /\ needsPush[1]
              THEN Append(c1, <<"Push", Answer(pushed)>>) ELSE c1
        c3 == Append(c2, <<"CreatePR", locals.Owner, locals.Name, locals.baseBranch,
                           locals.currentBranch, result.Title, result.Description>>)
    IN  CASE result.Action = ActionCancel -> Returned(<<>>, "")
          [] result.Action \in {ActionAccept, ActionEdit} ->
                IF needsPush = <<>> THEN Returned(c1, "failed to check push status")
                ELSE IF needsPush[1] /\ pushed = <<>> THEN Returned(c2, "failed to push branch")
                ELSE IF created = <<>> THEN Returned(c3, "failed to create PR")
                ELSE Returned(c3, "")
          [] OTHER -> Returned(<<>>, "unexpected action")

(***************************************************************************)
(* The two commands under run: a run goes on to the select prompt, waits   *)
(* for the selection, for "edit" waits for the edited text, and then acts  *)
(* on the result of the confirmation.                                      *)
(***************************************************************************)
Outcomes(S) == {<<>>} \cup {<<v>> : v \in S}

Choices == {"accept", "edit", "cancel"}

SampleDiff == "diff --git a/a.go b/a.go\nnew file\n+++ b/a.go\n+x\n+\n\n"

CommitContents == {"Add x", "\"Add x\"\n", "\"\""}
PRContents == {"Title: Fix bug\n\nDescription:\nFixes it.", "Fix bug\n\nFixes it.", "\"\""}

\* the outcomes of the chat completion: an error, no choice, one choice
Responses(contents) == Outcomes({<<>>} \cup {<<c>> : c \in contents})

CommitEdits == {"", "  ", " Fix y "}
TitleEdits == {"", " New title "}
DescriptionEdits == {"", "  ", "New body"}

OriginURLs == {"git@github.com:owner/repo.git", "https://gitlab.com/owner/repo"}

InitCmd ==
    /\ cmd \in {"commit", "pr"}
    /\ fn = (IF cmd = "commit" THEN "runCommit" ELSE "runPR")
    /\ arg = <<>> /\ res = <<>>
    /\ pc = "start" /\ env = <<>> /\ calls = <<>> /\ outcome = <<>> /\ payload = <<>>
    /\ RepoIdle /\ StageIdle

\* a run that went on to the prompt, or returned
Ran(run, locals) ==
    /\ calls' = run.calls
    /\ IF run.shown = <<>>
       THEN pc' = "returned" /\ res' = <<run.err>> /\ payload' = <<>> /\ env' = <<>>
       ELSE pc' = "AwaitingChoice" /\ res' = <<>> /\ payload' = run.shown /\ env' = locals
    /\ UNCHANGED <<fn, arg, cmd, outcome, repoVars, stageVars>>

RunCommit ==
    /\ cmd = "commit" /\ pc = "start"
    /\ \E key \in BOOLEAN, opened \in BOOLEAN, hasStaged \in Outcomes(BOOLEAN),
          diff \in Outcomes({"", SampleDiff}), resp \in Responses(CommitContents) :
          Ran(RunCommitToPrompt(key, opened, hasStaged, diff, resp), <<>>)

RunPR ==
    /\ cmd = "pr" /\ pc = "start"
    /\ \E key \in BOOLEAN, token \in BOOLEAN, opened \in BOOLEAN,
          current \in Outcomes({"feature", "main"}), base \in Outcomes({"main", "master"}),
          commits \in Outcomes({<<>>, <<CommitInfo(2), CommitInfo(1)>>}),
          diff \in Outcomes({"", SampleDiff}), remoteURL \in Outcomes(OriginURLs),
          resp \in Responses(PRContents) :
          LET run == RunPRToPrompt(key, token, opened, current, base, commits, diff,
                                   remoteURL, resp)
          IN  Ran(run, IF run.shown = <<>> THEN <<>> ELSE PRLocals(current, base, remoteURL))

\* a prompt that failed: the confirmation returns the error and so does the run
PromptFailed ==
    /\ pc' = "returned" /\ res' = <<"prompt failed">> /\ outcome' = outcome

\* the select prompt of ConfirmCommit returns: with an error, or with the choice
ChooseCommit ==
    /\ cmd = "commit" /\ pc = "AwaitingChoice"
    /\ \E choice \in Outcomes(Choices) :
          IF choice = <<>> THEN PromptFailed
          ELSE IF choice[1] = "edit" THEN pc' = "Editing" /\ UNCHANGED <<res, outcome>>
          ELSE /\ pc' = "Resolved" /\ res' = res
               /\ outcome' = <<ConfirmCommit(payload[1].Message, choice[1], "")>>
    /\ UNCHANGED <<fn, arg, cmd, env, calls, payload, repoVars, stageVars>>

\* the text prompt of ConfirmCommit returns: with an error, or with the edited message
EditCommit ==
    /\ cmd = "commit" /\ pc = "Editing"
    /\ \E editedMessage \in Outcomes(CommitEdits) :
          IF editedMessage = <<>> THEN PromptFailed
          ELSE /\ pc' = "Resolved" /\ res' = res
               /\ outcome' = <<ConfirmCommit(payload[1].Message, "edit", editedMessage[1])>>
    /\ UNCHANGED <<fn, arg, cmd, env, calls, payload, repoVars, stageVars>>

ChoosePR ==
    /\ cmd = "pr" /\ pc = "AwaitingChoice"
    /\ \E choice \in Outcomes(Choices) :
          IF choice = <<>> THEN PromptFailed
          ELSE IF choice[1] = "edit" THEN pc' = "Editing" /\ UNCHANGED <<res, outcome>>
          ELSE /\ pc' = "Resolved" /\ res' = res
               /\ outcome' = <<ConfirmPR(payload[1].Title, payload[1].Description,
                                         choice[1], "", "")>>
    /\ UNCHANGED <<fn, arg, cmd, env, calls, payload, repoVars, stageVars>>

EditPR ==
    /\ cmd = "pr" /\ pc = "Editing"
    /\ \E edited \in Outcomes(TitleEdits \X DescriptionEdits) :
          IF edited = <<>> THEN PromptFailed
          ELSE /\ pc' = "Resolved" /\ res' = res
               /\ outcome' = <<ConfirmPR(payload[1].Title, payload[1].Description,
                                         "edit", edited[1][1], edited[1][2])>>
    /\ UNCHANGED <<fn, arg, cmd, env, calls, payload, repoVars, stageVars>>

\* the run that acts on the result and waits for a selection again
ActedAndAsksAgain(run) ==
    /\ calls' = calls \o run.calls
    /\ pc' = "AwaitingChoice" /\ res' = <<run.err>>
    /\ UNCHANGED <<fn, arg, cmd, env, outcome, payload, repoVars, stageVars>>

\* the run acts on the result and returns
Acted(run) ==
    /\ calls' = calls \o run.calls
    /\ pc' = "returned" /\ res' = <<run.err>>
    /\ UNCHANGED <<fn, arg, cmd, env, outcome, payload, repoVars, stageVars>>

ActCommit ==
    /\ cmd = "commit" /\ pc = "Resolved"
    /\ \E committed \in Outcomes({"9fceb02"}) : Acted(ActOnCommitResult(outcome[1], committed))

ActPR ==
    /\ cmd = "pr" /\ pc = "Resolved"
    /\ \E needsPush \in Outcomes(BOOLEAN), pushed \in Outcomes({"ok"}),
          created \in Outcomes({"https://github.com/owner/repo/pull/1"}) :
          Acted(ActOnPRResult(outcome[1], env, needsPush, pushed, created))

NextCmd ==
    \/ RunCommit \/ ChooseCommit \/ EditCommit \/ ActCommit
    \/ RunPR \/ ChoosePR \/ EditPR \/ ActPR

SpecCmd == InitCmd /\ [][NextCmd]_vars

Mutating == {"Commit", "Push", "CreatePR"}

MutatingCalls == {i \in 1..Len(calls) : calls[i][1] \in Mutating}
ConfirmCalls == {i \in 1..Len(calls) : calls[i][1] \in {"ConfirmCommit", "ConfirmPR"}}

(* C1: in every run of the commit and pr commands, Commit, Push and         *)
(* CreatePR are invoked only after the confirmation prompt has returned     *)
(* with action Accept or Edit; when the outcome is Cancel, or the prompt    *)
(* itself returned an error, none of them is invoked, whatever the payload. *)
C1_MutationOnlyAfterConfirmation ==
    /\ MutatingCalls # {} =>
          /\ outcome # <<>> /\ outcome[1].Action \in {ActionAccept, ActionEdit}
          /\ \A i \in MutatingCalls : \E j \in ConfirmCalls : j < i
    /\ (outcome # <<>> /\ outcome[1].Action = ActionCancel) => MutatingCalls = {}
    /\ (pc = "returned" /\ outcome = <<>>) => MutatingCalls = {}

C1_Witness ==
    /\ cmd = "pr" /\ pc = "returned" /\ res = <<"">>
    /\ outcome # <<>> /\ outcome[1].Action = ActionEdit
    /\ \E i, j \in MutatingCalls : i < j /\ calls[i][1] = "Push" /\ calls[j][1] = "CreatePR"

(***************************************************************************)
(* Claims on ParseRemoteURL, continued.                                    *)
(***************************************************************************)
\* an owner or a repository name as GitHub gives them: not empty, no "/", and a
\* repository name does not end with ".git"
IsOwner(o) == o # "" /\ ~Contains(o, "/")
IsRepoName(n) == n # "" /\ ~Contains(n, "/") /\ ~HasSuffix(n, ".git")

\* the input is one of the four forms for its owner and name, whitespace around it or not
FourForms ==
    /\ arg.lead = "" /\ arg.host \in {"git@github.com:", "https://github.com/"}
    /\ IsOwner(arg.owner) /\ arg.sep = "/" /\ IsRepoName(arg.name)

(* C11: for every owner and repository name, git@github.com:owner/repo.git, *)
(* git@github.com:owner/repo, https://github.com/owner/repo.git and         *)
(* https://github.com/owner/repo, with or without surrounding whitespace,   *)
(* all make ParseRemoteURL succeed with the same {Owner: owner, Name: repo}; *)
(* the ".git" suffix is never part of Name.                                 *)
C11_FourFormsAgree ==
    (URLParsed /\ FourForms) =>
        /\ res[1] = [err |-> FALSE, Owner |-> arg.owner, Name |-> arg.name]
        /\ ~HasSuffix(res[1].Name, ".git")

C11_Witness ==
    /\ URLParsed /\ FourForms
    /\ arg.text = " https://github.com/my-org/my_repo.git "
    /\ res[1].Name = "my_repo"

(***************************************************************************)
(* The confirmation functions under call: what is shown, the outcome of    *)
(* the select prompt and the outcome of the edit prompt are the inputs.    *)
(***************************************************************************)
\* ConfirmCommit with its two prompts: choice and edited are their outcomes
ConfirmCommitCall(message, choice, edited) ==
    IF choice = <<>> THEN [err |-> "prompt failed", result |-> <<>>]
    ELSE IF choice[1] = "edit" /\ edited = <<>>
    THEN [err |-> "edit prompt failed", result |-> <<>>]
    ELSE [err |-> "",
          result |-> <<ConfirmCommit(message, choice[1],
                                     IF choice[1] = "edit" THEN edited[1] ELSE "")>>]

\* ConfirmPR with its select prompt and its edit form
ConfirmPRCall(title, description, choice, edited) ==
    IF choice = <<>> THEN [err |-> "prompt failed", result |-> <<>>]
    ELSE IF choice[1] = "edit" /\ edited = <<>>
    THEN [err |-> "edit prompt failed", result |-> <<>>]
    ELSE [err |-> "",
          result |-> <<ConfirmPR(title, description, choice[1],
                                 IF choice[1] = "edit" THEN edited[1][1] ELSE "",
                                 IF choice[1] = "edit" THEN edited[1][2] ELSE "")>>]

\* values of the string the select prompt writes its selection to: the three options, the
\* string's zero value and a value that is none of the options
Selections == Choices \cup {"", "retry"}

GeneratedMessages == {"Add x", ""}
GeneratedTitles == {"Fix bug", ""}
GeneratedDescriptions == {"Fixes it.", ""}

InitUI ==
    /\ fn \in {"ConfirmCommit", "ConfirmPR"}
    /\ IF fn = "ConfirmCommit"
       THEN arg \in [message : GeneratedMessages, choice : Outcomes(Selections),
                     edited : Outcomes(CommitEdits)]
       ELSE arg \in [title : GeneratedTitles, description : GeneratedDescriptions,
                     choice : Outcomes(Selections),
                     edited : Outcomes(TitleEdits \X DescriptionEdits)]
    /\ res = <<>>
    /\ RepoIdle /\ StageIdle /\ CmdIdle

CallConfirmCommit ==
    /\ fn = "ConfirmCommit" /\ res = <<>>
    /\ res' = <<ConfirmCommitCall(arg.message, arg.choice, arg.edited)>>
    /\ UNCHANGED <<fn, arg, repoVars, stageVars, cmdVars>>

CallConfirmPR ==
    /\ fn = "ConfirmPR" /\ res = <<>>
    /\ res' = <<ConfirmPRCall(arg.title, arg.description, arg.choice, arg.edited)>>
    /\ UNCHANGED <<fn, arg, repoVars, stageVars, cmdVars>>

NextUI == CallConfirmCommit \/ CallConfirmPR

SpecUI == InitUI /\ [][NextUI]_vars

\* the confirmation returned a result after the user chose Edit
Edited(name) ==
    /\ fn = name /\ res # <<>> /\ res[1].err = ""
    /\ arg.choice = <<"edit">>

\* the field of the result is generated merged with replacement as the claim says
MergedField(field, generated, replacement) ==
    /\ TrimSpace(replacement) = "" => field = generated
    /\ TrimSpace(replacement) # "" => field = TrimSpace(replacement)
    /\ generated # "" => field # ""

(* C12: when the user chooses Edit, the commit message, the PR title and   *)
(* the PR description are merged independently: a field whose replacement  *)
(* is left blank (empty or only whitespace) keeps its generated value, a   *)
(* field with non-blank replacement takes the trimmed replacement, and     *)
(* editing never turns a non-empty generated field into an empty one.      *)
C12_BlankKeepsGenerated ==
    /\ Edited("ConfirmCommit") =>
          MergedField(res[1].result[1].Message, arg.message, arg.edited[1])
    /\ Edited("ConfirmPR") =>
          /\ MergedField(res[1].result[1].Title, arg.title, arg.edited[1][1])
          /\ MergedField(res[1].result[1].Description, arg.description, arg.edited[1][2])

CallsOf(op) == {i \in 1..Len(calls) : calls[i][1] = op}

(* C13: the confirmation is terminal and single-shot: in one run the        *)
(* content is presented once, one selection resolves it, the workflow never *)
(* goes back to presenting or awaiting the choice after a choice or after   *)
(* editing, and the caller acts on the outcome at most once: a commit run   *)
(* makes at most one commit, a pr run at most one push and one PR creation. *)
C13_SingleShot ==
    /\ [][/\ pc \in {"Editing", "Resolved", "returned"} => pc' \notin {"start", "AwaitingChoice"}
          /\ pc \in {"Resolved", "returned"} => pc' # "Editing"
          /\ pc = "returned" => pc' = "returned" /\ calls' = calls
          /\ outcome # <<>> => outcome' = outcome]_vars
    /\ [](/\ Cardinality(ConfirmCalls) <= 1
          /\ \A op \in Mutating : Cardinality(CallsOf(op)) <= 1
          /\ outcome # <<>> => outcome[1].Action \in {ActionAccept, ActionEdit, ActionCancel})

C13_Witness ==
    /\ cmd = "commit" /\ pc = "returned" /\ res = <<"">>
    /\ outcome # <<>> /\ outcome[1].Action = ActionEdit
    /\ Cardinality(CallsOf("Commit")) = 1 /\ Cardinality(ConfirmCalls) = 1

\* a user action resolves the confirmation with action Cancel
CanCancel ==
    ENABLED (NextCmd /\ pc' = "Resolved" /\ outcome'[1].Action = ActionCancel)

\* a user action ends the run with the error of the prompt and no further call
CanAbort ==
    ENABLED (NextCmd /\ pc' = "returned" /\ res' = <<"prompt failed">> /\ calls' = calls)

NothingMutated ==
    (outcome # <<>> /\ outcome[1].Action = ActionCancel) \/ res = <<"prompt failed">>
        => MutatingCalls = {}

(* C14 as stated: from AwaitingChoice and also from Editing there is a user *)
(* action that leads to Resolved with action Cancel, after which no commit, *)
(* push or PR creation happens.                                             *)
C14_CancelFromBoth_Original ==
    /\ pc \in {"AwaitingChoice", "Editing"} => CanCancel
    /\ NothingMutated

(* C14: from AwaitingChoice a user action (selecting Cancel) leads to       *)
(* Resolved with action Cancel; from Editing no user action does: the edit  *)
(* can only be aborted, which ends the run with the error of the prompt.    *)
(* After either, no commit, push or PR creation happens.                    *)
C14_CancelFromChoiceAbortFromEditing ==
    /\ pc = "AwaitingChoice" => CanCancel
    /\ pc = "Editing" => ~CanCancel /\ CanAbort
    /\ NothingMutated

C14_Witness ==
    /\ cmd = "commit" /\ pc = "Editing" /\ ConfirmCalls # {}
    /\ payload = <<[Message |-> "Add x"]>>
    /\ CanAbort /\ ~CanCancel

(***************************************************************************)
(* Claims on GetDefaultBranch, continued.                                  *)
(***************************************************************************)
DefaultCandidates ==
    {"refs/heads/main", "refs/heads/master",
     "refs/remotes/origin/main", "refs/remotes/origin/master"}

(* C15: GetDefaultBranch fails with the no-default-branch error only when   *)
(* none of local main, local master, origin/main and origin/master exists;  *)
(* when one exists it succeeds, whether a remote is configured or not, and  *)
(* without a local main or master it answers "main" or "master" only for    *)
(* the remote-tracking reference of that name, not for another reference    *)
(* whose name contains "origin/main" or "origin/master".                    *)
C15_FailsOnlyWithoutCandidates ==
    DefaultBranchReturned =>
        /\ res[1].err => RefNameSet \cap DefaultCandidates = {}
        /\ (~res[1].err /\ RefNameSet \cap {"refs/heads/main", "refs/heads/master"} = {}) =>
              RemoteRefName("origin", res[1].branch) \in RefNameSet

(***************************************************************************)
(* Claims on GetCommitsAhead, continued.                                   *)
(***************************************************************************)
\* the commits from HEAD back to the root, newest first
HeadLine == Ancestry(head[1].hash)

\* the first place on the line from HEAD where the walk stops: the base tip, a commit that
\* cannot be loaded, or the place after the root
WalkEnd ==
    LET stops == {i \in 1..Len(HeadLine) : HeadLine[i] = BaseTip \/ HeadLine[i] \in missing}
    IN  IF stops = {} THEN Len(HeadLine) + 1 ELSE Min(stops)

\* the result holds exactly the first n commits of the line from HEAD, and no error
ReturnsFirst(n) ==
    /\ res[1].err = ""
    /\ Len(res[1].commits) = n
    /\ \A i \in 1..n : RefersTo(res[1].commits[i], HeadLine[i])

(* C16: GetCommitsAhead tolerates not reaching the base: when the walk from *)
(* HEAD ends without meeting the base tip, every visited commit is returned *)
(* and no error; an error of the walk is returned only when no commit was   *)
(* collected, and is swallowed, the collected commits being returned with   *)
(* no error, once a commit has been collected.                              *)
C16_ToleratesNotReachingBase ==
    (CommitsAheadReturned /\ head # <<>> /\ BaseTip # 0) =>
        /\ (WalkEnd = Len(HeadLine) + 1) => ReturnsFirst(Len(HeadLine))
        /\ (WalkEnd > 1 /\ WalkEnd <= Len(HeadLine) /\ HeadLine[WalkEnd] \in missing)
              => ReturnsFirst(WalkEnd - 1)
        /\ res[1].err # "" => (res[1].commits = <<>> /\ WalkEnd = 1 /\ HeadLine[1] \in missing)

C16_Witness ==
    /\ CommitsAheadReturned /\ head # <<>> /\ BaseTip # 0
    /\ WalkEnd = 3 /\ Len(HeadLine) >= 3 /\ HeadLine[3] \in missing /\ HeadLine[3] # BaseTip
    /\ res[1].err = "" /\ Len(res[1].commits) = 2

(***************************************************************************)
(* internal/llm: the prompt of a generation request.  A string is the      *)
(* bytes of the Go string, and Len is len; "<" and ">" stand for the two   *)
(* bytes of a character that UTF-8 encodes in two bytes.                   *)
(***************************************************************************)
maxDiffLength == 10000

\* the cut that also applies to a diff of exactly maxDiffLength
TruncateDiffAtLimit(diff) ==
    IF Len(diff) >= maxDiffLength
    THEN SubSeq(diff, 1, maxDiffLength) \o "\n\n[diff truncated due to length]"
    ELSE diff

\* the first statement of both generation functions
TruncateDiff(diff) ==
    IF Len(diff) > maxDiffLength
    THEN SubSeq(diff, 1, maxDiffLength) \o "\n\n[diff truncated due to length]"
    ELSE diff

buildCommitPrompt(diff) ==
    "Generate a commit message for the following changes:\n\n" \o diff

buildPRPrompt(commits, diff) ==
    "Generate a PR title and description for the following changes.\n\nCommits:\n"
        \o commits \o "\n\nDiff:\n" \o diff

\* the content of the user message of the request
CommitRequest(diff) == buildCommitPrompt(TruncateDiff(diff))
PRRequest(commits, diff) == buildPRPrompt(commits, TruncateDiff(diff))

MaxOver == 2

\* n times the text s
RECURSIVE Repeat(_, _)
Repeat(s, n) ==
    IF n = 0 THEN ""
    ELSE IF n % 2 = 0 THEN LET half == Repeat(s, n \div 2) IN half \o half
    ELSE s \o Repeat(s, n - 1)

\* the text of n bytes that repeats s
Filled(s, n) == SubSeq(Repeat(s, (n \div Len(s)) + 1), 1, n)

DiffFills == {"x", "+a\n", "<>"}

\* diffs whose length is small or near the limit, on both sides of it
LongDiffs ==
    {d \in {Filled(s, n) : s \in DiffFills,
                           n \in (0..MaxOver)
                                     \cup ((maxDiffLength - MaxOver)..(maxDiffLength + MaxOver))} :
        ~HasSuffix(d, "<")}

CommitSummaries == {"", "9fceb01 Change 1", Filled("9fceb01 Change 1\n", maxDiffLength + MaxOver)}

InitPrompt ==
    /\ fn \in {"GenerateCommitMessage", "GeneratePRContent"}
    /\ arg \in [commits : IF fn = "GeneratePRContent" THEN CommitSummaries ELSE {""},
                diff : LongDiffs]
    /\ res = <<>>
    /\ RepoIdle /\ StageIdle /\ CmdIdle

SendCommitRequest ==
    /\ fn = "GenerateCommitMessage" /\ res = <<>>
    /\ res' = <<CommitRequest(arg.diff)>>
    /\ UNCHANGED <<fn, arg, repoVars, stageVars, cmdVars>>

SendPRRequest ==
    /\ fn = "GeneratePRContent" /\ res = <<>>
    /\ res' = <<PRRequest(arg.commits, arg.diff)>>
    /\ UNCHANGED <<fn, arg, repoVars, stageVars, cmdVars>>

NextPrompt == SendCommitRequest \/ SendPRRequest

SpecPrompt == InitPrompt /\ [][NextPrompt]_vars

RequestSent == fn \in {"GenerateCommitMessage", "GeneratePRContent"} /\ res # <<>>

\* the request holds the commit summary whole and, after it, embedded as its diff
Embeds(embedded) ==
    IF fn = "GenerateCommitMessage"
    THEN res[1] = "Generate a commit message for the following changes:\n\n" \o embedded
    ELSE res[1] = "Generate a PR title and description for the following changes.\n\nCommits:\n"
                      \o arg.commits \o "\n\nDiff:\n" \o embedded

TruncationMarker == "[diff truncated due to length]"

\* the number of characters of a text, and the number of bytes of its first n characters
CharCount(text) == Cardinality({i \in 1..Len(text) : Char(text, i) # ">"})
FirstChars(text, n) ==
    IF CharCount(text) = Len(text) THEN n
    ELSE CHOOSE k \in n..Len(text) :
            /\ CharCount(SubSeq(text, 1, k)) = n
            /\ k = Len(text) \/ Char(text, k + 1) # ">"

(* C17 as stated: the diff embedded in the request is never longer than     *)
(* 10,000 characters plus the truncation marker: a diff of at most 10,000   *)
(* is sent unchanged, a longer one is replaced by its first 10,000          *)
(* characters followed by the marker "[diff truncated due to length]", for  *)
(* both generations; the commit summary is never truncated.                 *)
C17_TruncatedToMarker_Original ==
    RequestSent =>
        IF CharCount(arg.diff) <= 10000 THEN Embeds(arg.diff)
        ELSE Embeds(SubSeq(arg.diff, 1, FirstChars(arg.diff, 10000)) \o TruncationMarker)

(* C17: a diff of at most 10,000 bytes is sent unchanged; a longer one is   *)
(* replaced by its first 10,000 bytes followed by an empty line and the     *)
(* marker, that is by "\n\n[diff truncated due to length]", so the embedded *)
(* diff is never longer than 10,000 bytes plus these 32; this holds for     *)
(* both generations, and the commit summary is never truncated.             *)
C17_TruncatedToBlankLineAndMarker ==
    RequestSent =>
        LET embedded == IF Len(arg.diff) <= 10000 THEN arg.diff
                        ELSE SubSeq(arg.diff, 1, 10000) \o "\n\n" \o TruncationMarker
        IN  Embeds(embedded) /\ Len(embedded) <= 10000 + 32

C17_Witness ==
    /\ RequestSent /\ fn = "GeneratePRContent"
    /\ Len(arg.diff) = 10002 /\ CharCount(arg.diff) = 5001 /\ Len(arg.commits) > 10000
    /\ HasSuffix(res[1], "\n\n" \o TruncationMarker)

\* the answers of GetCurrentBranch and GetDefaultBranch in this run, when both were asked
BranchesAnswered == CallsOf("GetCurrentBranch") # {} /\ CallsOf("GetDefaultBranch") # {}
CurrentAnswer == calls[CHOOSE i \in CallsOf("GetCurrentBranch") : TRUE][2]
BaseAnswer == calls[CHOOSE i \in CallsOf("GetDefaultBranch") : TRUE][2]

(* C18: the pr command enforces current # base before any work on the pair: *)
(* when GetCurrentBranch equals GetDefaultBranch the run ends with an error *)
(* and never calls GetCommitsAhead, the generation service, Push or         *)
(* CreatePR; hence CreatePR is never invoked with head equal to base.       *)
C18_NeverOnBaseBranch ==
    /\ (cmd = "pr" /\ BranchesAnswered /\ CurrentAnswer = BaseAnswer /\ BaseAnswer # "<failed>") =>
          /\ pc = "returned" /\ res # <<>> /\ res[1] # ""
          /\ \A op \in {"GetCommitsAhead", "GetDiffFromBase", "GeneratePRContent", "ConfirmPR",
                        "NeedsPush", "Push", "CreatePR"} : CallsOf(op) = {}
    /\ \A i \in CallsOf("CreatePR") : calls[i][4] # calls[i][5]

C18_Witness ==
    /\ cmd = "pr" /\ pc = "returned" /\ res = <<"cannot create PR from base branch">>
    /\ calls = <<<<"GetCurrentBranch", "main">>, <<"GetDefaultBranch", "main">>>>

(***************************************************************************)
(* Claims on NeedsPush.                                                    *)
(***************************************************************************)
NeedsPushReturned == fn = "NeedsPush" /\ res # <<>>

\* the remote-tracking references of the current branch at origin
TrackingRefs ==
    {i \in 1..Len(refs) : refs[i].name = "refs/remotes/origin/" \o ShortName(head[1].name)}

(* C19: NeedsPush returns true exactly when no remote-tracking reference    *)
(* origin/<current branch> exists or its hash differs from the hash of      *)
(* HEAD, and false exactly when it exists with an equal hash; a missing     *)
(* remote-tracking reference is reported as true, not as an error.          *)
C19_NeedsPushIffMissingOrDiffers ==
    (NeedsPushReturned /\ head # <<>>) =>
        /\ res[1].err = ""
        /\ res[1].needsPush <=>
              (TrackingRefs = {} \/ \E i \in TrackingRefs : refs[i].hash # head[1].hash)

C19_Witness ==
    /\ NeedsPushReturned /\ head # <<>> /\ head[1].name = "refs/heads/feature"
    /\ TrackingRefs = {} /\ "refs/remotes/origin/main" \in RefNameSet
    /\ res[1] = [err |-> "", needsPush |-> TRUE]

(***************************************************************************)
(* Claims on the description parser.                                       *)
(***************************************************************************)
DescriptionParsed == fn = "parseDescription" /\ res # <<>>

\* a line whose trimmed form starts with "description:", and what follows the marker
IsHeader(line) == HasPrefix(ToLower(TrimSpace(line)), "description:")
HeaderRest(line) ==
    TrimSpace(TrimPrefix(TrimPrefix(TrimSpace(line), "Description:"), "description:"))

\* the line gives the first content: a header with a remainder, or a non-blank line
GivesContent(line) ==
    IF IsHeader(line) THEN HeaderRest(line) # "" ELSE TrimSpace(line) # ""

(* C20: in the description parser, once non-blank content has been          *)
(* accumulated, every later input line, blank or not and whatever its text, *)
(* a line starting with "description:" included, is kept verbatim and in    *)
(* order until the input ends; only the joined result is trimmed.           *)
C20_LaterLinesVerbatim ==
    DescriptionParsed =>
        LET lines == arg.lines
            starts == {i \in 1..Len(lines) : GivesContent(lines[i])}
        IN  IF starts = {} THEN res[1] = ""
            ELSE LET k == Min(starts)
                     first == IF IsHeader(lines[k]) THEN HeaderRest(lines[k]) ELSE lines[k]
                 IN  res[1] = TrimSpace(Join(<<first>> \o SubSeq(lines, k + 1, Len(lines)), "\n"))

(***************************************************************************)
(* Claim C21.                                                              *)
(***************************************************************************)
\* the line the loop "Find title line" recognises by its marker: the first
\* non-blank line, when its trimmed, lower-cased text starts with "title:"
Recognised(lines) ==
    IF NonBlankLines(lines) # {} /\ Min(NonBlankLines(lines)) \in TitleLines(lines)
    THEN <<TrimSpace(lines[Min(NonBlankLines(lines))])>>
    ELSE <<>>

\* a line with its first six characters, the marker in any casing, removed
Unmarked(line) == SubSeq(line, 7, Len(line))

(* C21: when a line is recognised as the title line (its trimmed text      *)
(* starts with "title:" in any letter casing), the returned title is that  *)
(* line without the marker, with surrounding whitespace and quote          *)
(* characters trimmed, and it does not start with the marker any more.     *)
C21_MarkerRemoved ==
    Parsed =>
        LET line == Recognised(Split(TrimSpace(arg.text), "\n"))
        IN  line # <<>> =>
                /\ ~HasPrefix(ToLower(res[1].Title), "title:")
                /\ res[1].Title = TrimSpace(Trim(TrimSpace(Unmarked(line[1])), QuoteChars))

(***************************************************************************)
(* Claim C22.                                                              *)
(***************************************************************************)
\* the reference stores that hold the references of rs in another order
Reorderings(rs) ==
    {[i \in 1..Len(rs) |-> rs[p[i]]] :
        p \in {q \in [1..Len(rs) -> 1..Len(rs)] : \A i, j \in 1..Len(rs) : i # j => q[i] # q[j]}}

MatchesMain == {n \in RefNameSet : Contains(n, "origin/main")}
MatchesMaster == {n \in RefNameSet : Contains(n, "origin/master")}

\* the scan of the references is what answers
Scanned ==
    /\ DefaultBranchReturned /\ hasRemote
    /\ RefNameSet \cap {"refs/heads/main", "refs/heads/master"} = {}

(* C22: without a local main or master, the answer of the reference scan   *)
(* does not depend on the order of the references: it is "main" whenever a *)
(* reference whose name contains "origin/main" exists, before or after one *)
(* containing "origin/master", and "master" only when one containing       *)
(* "origin/master" exists and none containing "origin/main" does.          *)
C22_ScanOrderIndependent ==
    Scanned =>
        /\ \A rs \in Reorderings(refs) : GetDefaultBranch(rs, hasRemote) = res[1]
        /\ MatchesMain # {} => res[1] = Found("main")
        /\ res[1] = Found("master") => (MatchesMaster # {} /\ MatchesMain = {})

C22_Witness ==
    /\ Scanned /\ Len(refs) >= 2
    /\ refs[1].name = "refs/remotes/origin/master"
    /\ refs[2].name = "refs/remotes/origin/main"
    /\ res[1] = Found("main")

(***************************************************************************)
(* Claims on the staged diff, continued.                                   *)
(***************************************************************************)
StagedChangesReturned == fn = "HasStagedChanges" /\ res # <<>> /\ res[1].err = ""

\* the paths the index stages a change for
StagedPaths == {f \in DOMAIN status : status[f].staging \notin {Unmodified, Untracked}}

DiffHeader(f) == "diff --git a/" \o f \o " b/" \o f

\* the lines of a document at which a block starts: the first one and those after a
\* blank line
BlockStarts(lines) == {i \in 1..(Len(lines) - 1) : i = 1 \/ lines[i - 1] = ""}

(* C23: HasStagedChanges and GetStagedDiff read the status alike: an       *)
(* Unmodified or Untracked entry adds nothing to the document, every other *)
(* entry adds exactly one block, which begins with its "diff --git" header *)
(* and ends with a blank line; so the document of GetStagedDiff is empty   *)
(* if and only if HasStagedChanges answers false.                          *)
C23_StagedAgree ==
    /\ StagedDiffReturned =>
          LET lines == Split(res[1].diff, "\n")
          IN  /\ \A f \in StagedPaths :
                    Cardinality({i \in 1..Len(lines) : lines[i] = DiffHeader(f)}) = 1
              /\ \A i \in 1..(Len(lines) - 1) :
                    i \in BlockStarts(lines) <=> \E f \in StagedPaths : lines[i] = DiffHeader(f)
              /\ Cardinality(BlockStarts(lines)) = Cardinality(StagedPaths)
              /\ res[1].diff # "" => HasSuffix(res[1].diff, "\n\n")
              /\ \A order \in Orders(DOMAIN status) :
                    res[1].diff = "" <=> ~HasStagedChanges(status, order, None).changes
    /\ StagedChangesReturned =>
          \A order \in Orders(DOMAIN status) :
              ~res[1].changes <=> GetStagedDiff(status, hasHead, order, None).diff = ""

C23_Witness ==
    /\ StagedDiffReturned
    /\ \E f, g \in DOMAIN status :
          /\ status[f].staging = Untracked
          /\ status[g].staging = Modified /\ status[g].idx = "x\ny" /\ status[g].head = "x\n"
          /\ res[1].diff = DiffHeader(g) \o "\n--- a/" \o g \o "\n+++ b/" \o g \o "\n-\n+y\n\n"

\* what can and cannot be read of the entry of path f
IndexReadable(f) == status[f].idx \notin {NoEntry, NoBlob}
HeadReadable(f) == hasHead /\ status[f].head # NoFile
Unreadable(f) ==
    \/ status[f].staging \in {Added, Modified} /\ ~IndexReadable(f)
    \/ status[f].staging \in {Modified, Deleted} /\ status[f].head = NoFile

\* the lines of the block of path f in a document: from its header to the blank line
BlockOf(lines, f) ==
    LET start == Min({i \in 1..Len(lines) : lines[i] = DiffHeader(f)})
        end == Min({j \in (start + 1)..Len(lines) : lines[j] = ""})
    IN  SubSeq(lines, start, end - 1)

Prefixed(prefix, parts) == [i \in 1..Len(parts) |-> prefix \o parts[i]]

\* the lines an entry gives, with the content that cannot be read left out
EntryLines(f) ==
    <<DiffHeader(f)>> \o
       (CASE status[f].staging = Added ->
                <<"new file">> \o
                   (IF IndexReadable(f)
                    THEN <<"+++ b/" \o f>> \o Prefixed("+", Split(status[f].idx, "\n"))
                    ELSE <<>>)
          [] status[f].staging = Modified ->
                IF HeadReadable(f)
                THEN <<"--- a/" \o f, "+++ b/" \o f>> \o
                        (IF IndexReadable(f)
                         THEN LinesOf(formatSimpleDiff(Split(status[f].head, "\n"),
                                                       Split(status[f].idx, "\n")))
                         ELSE <<>>)
                ELSE <<>>
          [] status[f].staging = Deleted ->
                <<"deleted file">> \o
                   (IF HeadReadable(f)
                    THEN <<"--- a/" \o f>> \o Prefixed("-", Split(status[f].head, "\n"))
                    ELSE <<>>)
          [] OTHER -> <<>>)

(* C24: a staged entry whose content cannot be read (no index entry for    *)
(* the path, a blob that cannot be looked up or opened, no file at the     *)
(* path in the tree of HEAD) never makes GetStagedDiff fail and never ends *)
(* the walk: GetStagedDiff fails for a storage failure only, the entry     *)
(* gives its block without the content, and every other staged entry still *)
(* gives its whole block.                                                  *)
C24_UnreadableSkipped ==
    (fn = "GetStagedDiff" /\ res # <<>>) =>
        /\ res[1].err \in
              {"", "failed to get worktree", "failed to get status", "failed to get index"}
        /\ \A order \in Orders(DOMAIN status) :
              GetStagedDiff(status, hasHead, order, None).err = ""
        /\ res[1].err = "" =>
              \A f \in StagedPaths :
                  BlockOf(Split(res[1].diff, "\n"), f) = EntryLines(f)

C24_Witness ==
    /\ StagedDiffReturned
    /\ \E f, g \in DOMAIN status :
          /\ Unreadable(f) /\ ~Unreadable(g) /\ hasHead
          /\ status[f].staging = Added /\ status[f].idx = NoBlob
          /\ status[g].staging = Deleted /\ status[g].head = "x\n"
          /\ res[1].diff = DiffHeader(f) \o "\nnew file\n\n"
                               \o DiffHeader(g) \o "\ndeleted file\n--- a/" \o g \o "\n-x\n-\n\n"

(* C25: without a HEAD commit GetStagedDiff does not fail; the block of a  *)
(* Deleted entry holds no "-" line, and the block of a Modified entry      *)
(* leaves out the old content only (no "-" line): the new content read     *)
(* from the index is still written, one "+" line per element of it.        *)
C25_NoHeadOmitsOldSideOnly ==
    (StagedDiffReturned /\ ~hasHead) =>
        \A f \in StagedPaths :
            LET block == BlockOf(Split(res[1].diff, "\n"), f)
                new == Split(status[f].idx, "\n")
            IN  /\ status[f].staging \in {Modified, Deleted} =>
                      \A i \in 1..Len(block) : ~HasPrefix(block[i], "-")
                /\ (status[f].staging = Modified /\ IndexReadable(f)) =>
                      \A k \in 1..Len(new) : \E i \in 1..Len(block) : block[i] = "+" \o new[k]

(***************************************************************************)
(* Claims on the commit command, continued.                                *)
(***************************************************************************)
\* the steps of runCommit, in the order of the code
CommitSteps ==
    <<"HasStagedChanges", "GetStagedDiff", "GenerateCommitMessage", "ConfirmCommit", "Commit">>

(* C26: the steps of the commit command run in one order and each gates    *)
(* the next: GetStagedDiff is called only after HasStagedChanges answered  *)
(* true, the generation only with a diff that is not empty, the            *)
(* confirmation only after the generation succeeded; a step that fails or  *)
(* answers no is the last step of the run, which returns an error.         *)
C26_StepsGateEachOther ==
    cmd = "commit" =>
        /\ Len(calls) <= Len(CommitSteps)
        /\ \A i \in 1..Len(calls) : calls[i][1] = CommitSteps[i]
        /\ Len(calls) >= 2 => calls[1][2] = "true"
        /\ Len(calls) >= 3 => (calls[2][2] \notin {"", "<failed>"} /\ calls[3][2] = calls[2][2])
        /\ Len(calls) >= 4 => calls[3][3] = ""
        /\ (Len(calls) = 1 /\ calls[1][2] # "true") => (pc = "returned" /\ res[1] # "")
        /\ (Len(calls) = 2 /\ calls[2][2] \in {"", "<failed>"}) =>
              (pc = "returned" /\ res[1] # "")
        /\ (Len(calls) = 3 /\ calls[3][3] # "") => (pc = "returned" /\ res[1] # "")

C26_Witness ==
    /\ cmd = "commit" /\ pc = "returned" /\ res = <<"">>
    /\ Len(calls) = 5
    /\ calls[1] = <<"HasStagedChanges", "true">>
    /\ calls[2] = <<"GetStagedDiff", SampleDiff>>
    /\ calls[3] = <<"GenerateCommitMessage", SampleDiff, "">>
    /\ calls[5] = <<"Commit", "Add x">>

(***************************************************************************)
(* Claims on the pr command, continued.                                    *)
(***************************************************************************)
\* the run acted on a result of the confirmation with action Accept or Edit
ActedOnPR ==
    /\ cmd = "pr" /\ pc = "returned"
    /\ outcome # <<>> /\ outcome[1].Action \in {ActionAccept, ActionEdit}

(* C27: in the pr command, after an Accept or Edit outcome, Push is called *)
(* if and only if NeedsPush answered true, and before CreatePR; when       *)
(* NeedsPush or Push fails CreatePR is not called; CreatePR is given the   *)
(* title and the description of the outcome of the confirmation (the       *)
(* edited ones after an edit), not the generated ones.                     *)
C27_PushIffNeededThenCreate ==
    ActedOnPR =>
        /\ Cardinality(CallsOf("NeedsPush")) = 1
        /\ \A n \in CallsOf("NeedsPush") :
              /\ CallsOf("Push") # {} <=> calls[n][2] = "true"
              /\ calls[n][2] = "<failed>" => CallsOf("CreatePR") = {}
              /\ \A p \in CallsOf("Push") : n < p
        /\ \A p \in CallsOf("Push") :
              /\ calls[p][2] = "<failed>" => CallsOf("CreatePR") = {}
              /\ \A c \in CallsOf("CreatePR") : p < c
        /\ \A c \in CallsOf("CreatePR") :
              /\ calls[c][6] = outcome[1].Title
              /\ calls[c][7] = outcome[1].Description
        /\ ((\A n \in CallsOf("NeedsPush") : calls[n][2] # "<failed>")
               /\ (\A p \in CallsOf("Push") : calls[p][2] # "<failed>"))
              => Cardinality(CallsOf("CreatePR")) = 1

C27_Witness ==
    /\ ActedOnPR /\ res = <<"">>
    /\ outcome[1].Action = ActionEdit
    /\ payload[1].Title = "Fix bug" /\ outcome[1].Title = "New title"
    /\ \E p \in CallsOf("Push"), c \in CallsOf("CreatePR") :
          p < c /\ calls[c][6] = "New title" /\ calls[c][7] = payload[1].Description

(***************************************************************************)
(* Claim C28.                                                              *)
(***************************************************************************)
\* GetCommitsAhead or GetDiffFromBase returned, called with the name that
\* GetDefaultBranch answered for the same references
BaseUsed == fn \in {"GetCommitsAhead", "GetDiffFromBase"} /\ res # <<>>

(* C28: whenever GetDefaultBranch succeeds with a name b, GetCommitsAhead(b) *)
(* and GetDiffFromBase(b) on the same repository resolve b, as the local     *)
(* branch b or as the remote-tracking reference origin/b, and so never fail  *)
(* with the error that the base branch was not found.                        *)
C28_DefaultBranchResolves ==
    BaseUsed =>
        /\ RefNameSet \cap {BranchRefName(arg), RemoteRefName("origin", arg)} # {}
        /\ res[1].err # "failed to find base branch"

(***************************************************************************)
(* Claim C29.                                                              *)
(***************************************************************************)
(* C29: Commit is never called with an empty message: whatever the model   *)
(* replied and whatever the user did (accept, or edit with any text), the  *)
(* message the commit command passes to Commit is not empty.               *)
C29_CommitMessageNonEmpty ==
    cmd = "commit" => \A i \in CallsOf("Commit") : calls[i][2] # ""

(***************************************************************************)
(* Claim C30.                                                              *)
(***************************************************************************)
Confirmed == fn \in {"ConfirmCommit", "ConfirmPR"} /\ res # <<>> /\ res[1].err = ""

(* C30: the result of a confirmation has action Accept only if the         *)
(* selection was Accept: for no other value of the selection, the empty    *)
(* one and one that is none of the options included, do ConfirmCommit and  *)
(* ConfirmPR return a result with action Accept.                           *)
C30_AcceptOnlyIfSelected ==
    (Confirmed /\ res[1].result[1].Action = ActionAccept) => arg.choice = <<"accept">>

====
